---------------------------- MODULE Spec2Model ----------------------------
(***************************************************************************)
(* Model of the tracked-change mutation engine of v0-contract-redlining.   *)
(*                                                                         *)
(*   src/app/api/redline/route.ts   POST /api/redline: accept, reject and  *)
(*                                  accept-with-proposal on word/document. *)
(*   src/lib/docx-parser.ts         extractChanges, extractComments: the   *)
(*                                  change list and the comment list       *)
(*   src/unnamed/part_000           the page: groupChangesBySection,       *)
(*                                  handleFileChange, handleReload,        *)
(*                                  handleRedlineAction, ChangeCard        *)
(*                                                                         *)
(* Spec      the review sessions: redline requests and their responses     *)
(* PageSpec  the same with incomplete forms, failing fetches, uploads and  *)
(*           reloads, on fewer documents                                   *)
(* GroupSpec the review sessions on documents whose changes the section    *)
(*           classifier groups under headings                              *)
(*                                                                         *)
(* A JavaScript string is a sequence of one-character strings, so that     *)
(* parseInt, String(n) and trim() are computed and not assumed.  A .docx   *)
(* package is a record of parts; word/document.xml is a nested element     *)
(* tree (the serialized XML).  DOMParser turns it into a DOM: a store of   *)
(* nodes addressed by identity (uid), which the handlers mutate through    *)
(* insertBefore / removeChild; XMLSerializer turns the DOM back.           *)
(***************************************************************************)
EXTENDS Integers, Sequences, FiniteSets, TLC

VARIABLES
    file,       \* the page's current File (useState file): a package
    changes,    \* the page's change list (useState changes)
    processedChanges,   \* the page's history (useState processedChanges)
    contractSections,   \* the headings of the contract (useState contractSections)
    isLoading,  \* an upload or reload is running (useState isLoading)
    error,      \* the Error whose message the page shows (useState error)
    isProcessing,   \* a redline action is running (useState isProcessing)
    loading,    \* the uploads and reloads awaiting their extraction
    inFlight,   \* the fetches of the page awaiting their response
    nLoads,     \* number of uploads and reloads started so far
    request,    \* the form data of the last POST /api/redline
    xmlDoc,     \* the DOM of the last POST after its mutation (xmlDoc)
    response,   \* the response of the last POST
    pc,         \* "idle": no request in flight; "responded": awaiting the client
    nOps        \* number of requests, uploads and reloads so far

\* The state of the page.
page == <<file, changes, processedChanges, contractSections, isLoading, error, isProcessing,
          loading, inFlight, nLoads>>

\* The last call of the route.
call == <<request, xmlDoc, response, pc>>

vars == <<page, call, nOps>>

(***************************************************************************)
(* Bounds                                                                  *)
(***************************************************************************)
\* Requests, uploads and reloads of one review session.
MaxOps == 2

(***************************************************************************)
(* JavaScript values                                                       *)
(***************************************************************************)
\* null: formData.get of an absent field.  No string equals it, since the
\* elements of a string are single characters.
Null == <<"null">>

\* The empty string.
Empty == <<>>

\* JavaScript truthiness of a string-or-null value.
Truthy(s) == s # Null /\ s # Empty

Digits == <<"0", "1", "2", "3", "4", "5", "6", "7", "8", "9">>

IsDigit(c) == \E i \in 1..10 : Digits[i] = c

DigitVal(c) == (CHOOSE i \in 1..10 : Digits[i] = c) - 1

IsSpace(c) == c \in {" ", "\t", "\n"}

RECURSIVE TrimStart(_)
TrimStart(s) ==
    IF s # <<>> /\ IsSpace(Head(s)) THEN TrimStart(Tail(s)) ELSE s

RECURSIVE TrimEnd(_)
TrimEnd(s) ==
    IF s # <<>> /\ IsSpace(s[Len(s)]) THEN TrimEnd(SubSeq(s, 1, Len(s) - 1)) ELSE s

\* String.prototype.trim
Trim(s) == TrimEnd(TrimStart(s))

\* The value of the longest prefix of digits of s, accumulated from acc.
RECURSIVE DigitsPrefix(_, _)
DigitsPrefix(s, acc) ==
    IF s # <<>> /\ IsDigit(Head(s))
    THEN DigitsPrefix(Tail(s), 10 * acc + DigitVal(Head(s)))
    ELSE acc

\* Number.parseInt(s, 10): leading white space is skipped, a sign is read,
\* then the longest run of digits; NaN when there is no digit.
ParseInt(s) ==
    LET t == TrimStart(s)
        neg == t # <<>> /\ Head(t) = "-"
        u == IF t # <<>> /\ Head(t) \in {"-", "+"} THEN Tail(t) ELSE t
    IN  IF u = <<>> \/ ~IsDigit(Head(u))
        THEN [nan |-> TRUE, val |-> 0]
        ELSE [nan |-> FALSE,
              val |-> IF neg THEN 0 - DigitsPrefix(u, 0) ELSE DigitsPrefix(u, 0)]

\* The decimal digits of a natural number n.
RECURSIVE NatToString(_)
NatToString(n) ==
    IF n < 10 THEN <<Digits[n + 1]>>
    ELSE NatToString(n \div 10) \o <<Digits[(n % 10) + 1]>>

\* String(n)
NumberToString(n) == IF n < 0 THEN <<"-">> \o NatToString(0 - n) ELSE NatToString(n)

(***************************************************************************)
(* Serialized XML: nested trees                                            *)
(***************************************************************************)
NoAttrs == <<>>

\* An element <tag attrs>kids</tag>.
Elem(tag, attrs, kids) == [tag |-> tag, attrs |-> attrs, kids |-> kids, data |-> Empty]

\* Character data.
Text(s) == [tag |-> "#text", attrs |-> NoAttrs, kids |-> <<>>, data |-> s]

RECURSIVE TreeSize(_)
RECURSIVE ForestSize(_)
TreeSize(t) == 1 + ForestSize(t.kids)
ForestSize(ts) == IF ts = <<>> THEN 0 ELSE TreeSize(Head(ts)) + ForestSize(Tail(ts))

(***************************************************************************)
(* The DOM (xmldom): [doc |-> uid of the Document, nodes |-> uid -> node]  *)
(***************************************************************************)
\* No node (a null parentNode, firstChild or targetNode).
NoNode == 0

\* The uids of the children of a forest laid out in document order from u.
RECURSIVE KidUids(_, _)
KidUids(ts, u) ==
    IF ts = <<>> THEN <<>> ELSE <<u>> \o KidUids(Tail(ts), u + TreeSize(Head(ts)))

RECURSIVE ParseNode(_, _)
RECURSIVE ParseForest(_, _)
ParseNode(t, u) ==
    (u :> [tag |-> t.tag, attrs |-> t.attrs, kids |-> KidUids(t.kids, u + 1), data |-> t.data])
        @@ ParseForest(t.kids, u + 1)
ParseForest(ts, u) ==
    IF ts = <<>> THEN <<>>
    ELSE ParseNode(Head(ts), u) @@ ParseForest(Tail(ts), u + TreeSize(Head(ts)))

\* new DOMParser().parseFromString(xml): a Document node (uid 1) over the
\* root element; nodes are numbered in document order.
ParseFromString(tree) ==
    [doc |-> 1,
     nodes |-> (1 :> [tag |-> "#document", attrs |-> NoAttrs, kids |-> <<2>>, data |-> Empty])
                @@ ParseNode(tree, 2)]

RECURSIVE SerializeNode(_, _)
SerializeNode(dom, u) ==
    LET n == dom.nodes[u]
    IN  [tag |-> n.tag, attrs |-> n.attrs,
         kids |-> [i \in 1..Len(n.kids) |-> SerializeNode(dom, n.kids[i])],
         data |-> n.data]

\* new XMLSerializer().serializeToString(xmlDoc): the tree below the Document.
SerializeToString(dom) == SerializeNode(dom, dom.nodes[dom.doc].kids[1])

\* The nodes of the subtree of u in document order, u first.
RECURSIVE Preorder(_, _)
RECURSIVE PreorderAll(_, _)
Preorder(dom, u) == <<u>> \o PreorderAll(dom, dom.nodes[u].kids)
PreorderAll(dom, us) ==
    IF us = <<>> THEN <<>> ELSE Preorder(dom, Head(us)) \o PreorderAll(dom, Tail(us))

Range(s) == {s[i] : i \in 1..Len(s)}

\* node.getElementsByTagName(tag): the descendant elements with that tag, in
\* document order.
getElementsByTagName(dom, u, tag) ==
    LET IsTag(v) == dom.nodes[v].tag = tag
    IN  SelectSeq(PreorderAll(dom, dom.nodes[u].kids), IsTag)

\* element.getAttribute(name) of xmldom: "" when the attribute is absent.
getAttribute(dom, u, name) ==
    IF name \in DOMAIN dom.nodes[u].attrs THEN dom.nodes[u].attrs[name] ELSE Empty

\* node.parentNode
parentNode(dom, u) ==
    IF \E p \in DOMAIN dom.nodes : u \in Range(dom.nodes[p].kids)
    THEN CHOOSE p \in DOMAIN dom.nodes : u \in Range(dom.nodes[p].kids)
    ELSE NoNode

\* node.firstChild
firstChild(dom, u) ==
    IF dom.nodes[u].kids = <<>> THEN NoNode ELSE Head(dom.nodes[u].kids)

\* The index of child c among the children of p.
IndexOf(s, c) == CHOOSE i \in 1..Len(s) : s[i] = c

Without(s, c) == LET Keep(v) == v # c IN SelectSeq(s, Keep)

\* parent.removeChild(child)
removeChild(dom, p, c) ==
    [dom EXCEPT !.nodes[p].kids = Without(@, c)]

\* parent.insertBefore(newChild, refChild): newChild leaves its old parent,
\* if it has one, and enters parent's children right before refChild.
insertBefore(dom, p, new, ref) ==
    LET old == parentNode(dom, new)
        d1 == IF old = NoNode THEN dom ELSE removeChild(dom, old, new)
        ks == d1.nodes[p].kids
        k == IndexOf(ks, ref)
    IN  [d1 EXCEPT !.nodes[p].kids = SubSeq(ks, 1, k - 1) \o <<new>> \o SubSeq(ks, k, Len(ks))]

\* parent.appendChild(child) of a freshly created child.
appendChild(dom, p, c) ==
    [dom EXCEPT !.nodes[p].kids = Append(@, c)]

\* The uid the next created node gets.
FreshUid(dom) ==
    1 + (CHOOSE m \in DOMAIN dom.nodes : \A v \in DOMAIN dom.nodes : v <= m)

\* xmlDoc.createElement(tag) / createTextNode(data): a detached node.
createNode(dom, tag, attrs, data) ==
    [dom EXCEPT !.nodes = @ @@ (FreshUid(dom) :> [tag |-> tag, attrs |-> attrs, kids |-> <<>>, data |-> data])]

(***************************************************************************)
(* route.ts: the handlers.  Each returns [dom, threw, error]: the DOM it   *)
(* leaves, whether it threw, and the Error it threw.                       *)
(***************************************************************************)
NotFound(what, changeId) == [message |-> what, id |-> changeId]

NoError == NotFound("", Empty)

Returned(dom) == [dom |-> dom, threw |-> FALSE, error |-> NoError]

Threw(dom, err) == [dom |-> dom, threw |-> TRUE, error |-> err]

\* Mutant: the children are moved last child first, which reverses them.
RECURSIVE MoveChildrenReversed(_, _, _)
MoveChildrenReversed(dom, parent, node) ==
    IF dom.nodes[node].kids = <<>> THEN dom
    ELSE MoveChildrenReversed(
             insertBefore(dom, parent, dom.nodes[node].kids[Len(dom.nodes[node].kids)], node),
             parent, node)

\* while (node.firstChild) parent.insertBefore(node.firstChild, node)
RECURSIVE MoveChildrenBefore(_, _, _)
MoveChildrenBefore(dom, parent, node) ==
    IF firstChild(dom, node) = NoNode THEN dom
    ELSE MoveChildrenBefore(insertBefore(dom, parent, firstChild(dom, node), node), parent, node)

\* The unwrap of handleAcceptInsertion and handleRejectDeletion.
Unwrap(dom, parent, node) ==
    removeChild(MoveChildrenBefore(dom, parent, node), parent, node)

\* node.parentNode?.removeChild(node)
RemoveNode(dom, node) ==
    IF parentNode(dom, node) = NoNode THEN dom
    ELSE removeChild(dom, parentNode(dom, node), node)

\* Mutant: the last node of the list carrying the id is taken.
RECURSIVE FindLastById(_, _, _, _)
FindLastById(dom, list, i, changeId) ==
    IF i > Len(list) THEN NoNode
    ELSE LET later == FindLastById(dom, list, i + 1, changeId)
         IN  IF later # NoNode THEN later
             ELSE IF getAttribute(dom, list[i], "w:id") = changeId THEN list[i]
             ELSE NoNode

\* The first node of the list carrying the id, NoNode when none does.
RECURSIVE FindById(_, _, _, _)
FindById(dom, list, i, changeId) ==
    IF i > Len(list) THEN NoNode
    ELSE IF getAttribute(dom, list[i], "w:id") = changeId THEN list[i]
    ELSE FindById(dom, list, i + 1, changeId)

\* Mutant: accepting keeps the markup (the text is in the document already).
AcceptInsertionKeepsMarkup(dom, changeId) ==
    IF FindById(dom, getElementsByTagName(dom, dom.doc, "w:ins"), 1, changeId) = NoNode
    THEN Threw(dom, NotFound("Insertion with ID not found.", changeId))
    ELSE Returned(dom)

\* The for loop of handleAcceptInsertion from index i on.
RECURSIVE AcceptInsertionLoop(_, _, _, _)
AcceptInsertionLoop(dom, insertions, i, changeId) ==
    IF i > Len(insertions)
    THEN Threw(dom, NotFound("Insertion with ID not found.", changeId))
    ELSE LET node == insertions[i]
         IN  IF getAttribute(dom, node, "w:id") = changeId
             THEN IF parentNode(dom, node) = NoNode
                  THEN AcceptInsertionLoop(dom, insertions, i + 1, changeId)
                  ELSE Returned(Unwrap(dom, parentNode(dom, node), node))
             ELSE AcceptInsertionLoop(dom, insertions, i + 1, changeId)

handleAcceptInsertion(dom, changeId) ==
    AcceptInsertionLoop(dom, getElementsByTagName(dom, dom.doc, "w:ins"), 1, changeId)

\* Mutant: rejecting an insertion unwraps it, as accepting does.
RejectInsertionUnwraps(dom, changeId) ==
    handleAcceptInsertion(dom, changeId)

handleRejectInsertion(dom, changeId) ==
    LET node == FindById(dom, getElementsByTagName(dom, dom.doc, "w:ins"), 1, changeId)
    IN  IF node = NoNode
        THEN Threw(dom, NotFound("Insertion with ID not found.", changeId))
        ELSE Returned(RemoveNode(dom, node))

\* Mutant: accepting a deletion unwraps it, which keeps the deleted content.
AcceptDeletionUnwraps(dom, changeId) ==
    LET node == FindById(dom, getElementsByTagName(dom, dom.doc, "w:del"), 1, changeId)
    IN  IF node = NoNode
        THEN Threw(dom, NotFound("Deletion with ID not found.", changeId))
        ELSE Returned(Unwrap(dom, parentNode(dom, node), node))

handleAcceptDeletion(dom, changeId) ==
    LET node == FindById(dom, getElementsByTagName(dom, dom.doc, "w:del"), 1, changeId)
    IN  IF node = NoNode
        THEN Threw(dom, NotFound("Deletion with ID not found.", changeId))
        ELSE Returned(RemoveNode(dom, node))

\* Mutant: rejecting a deletion removes the node and the content it holds.
RejectDeletionDropsContent(dom, changeId) ==
    LET node == FindById(dom, getElementsByTagName(dom, dom.doc, "w:del"), 1, changeId)
    IN  IF node = NoNode
        THEN Threw(dom, NotFound("Deletion with ID not found.", changeId))
        ELSE Returned(RemoveNode(dom, node))

handleRejectDeletion(dom, changeId) ==
    LET node == FindById(dom, getElementsByTagName(dom, dom.doc, "w:del"), 1, changeId)
    IN  IF node = NoNode
        THEN Threw(dom, NotFound("Deletion with ID not found.", changeId))
        ELSE IF parentNode(dom, node) = NoNode THEN Returned(dom)
        ELSE Returned(Unwrap(dom, parentNode(dom, node), node))

\* The value "preserve" of xml:space, kept as one token.
Preserve == <<"preserve">>

\* Mutant: the w:t of the new insertion lacks xml:space="preserve".
InsertionNodeWithoutPreserve(dom, text, author, newId, now) ==
    LET insNode == FreshUid(dom)
        d1 == createNode(dom, "w:ins",
                  ("w:id" :> NumberToString(newId)) @@ ("w:author" :> author) @@ ("w:date" :> now),
                  Empty)
        runNode == FreshUid(d1)
        d2 == createNode(d1, "w:r", NoAttrs, Empty)
        textNode == FreshUid(d2)
        d3 == createNode(d2, "w:t", NoAttrs, Empty)
        chars == FreshUid(d3)
        d4 == createNode(d3, "#text", NoAttrs, text)
        d5 == appendChild(d4, textNode, chars)
        d6 == appendChild(d5, runNode, textNode)
    IN  [dom |-> appendChild(d6, insNode, runNode), node |-> insNode]

\* createInsertionNode(xmlDoc, text, author, newId): the w:ins element over
\* one run over one w:t with xml:space="preserve" over the text; node is the
\* new element, still detached.
createInsertionNode(dom, text, author, newId, now) ==
    LET insNode == FreshUid(dom)
        d1 == createNode(dom, "w:ins",
                  ("w:id" :> NumberToString(newId)) @@ ("w:author" :> author) @@ ("w:date" :> now),
                  Empty)
        runNode == FreshUid(d1)
        d2 == createNode(d1, "w:r", NoAttrs, Empty)
        textNode == FreshUid(d2)
        d3 == createNode(d2, "w:t", ("xml:space" :> Preserve), Empty)
        chars == FreshUid(d3)
        d4 == createNode(d3, "#text", NoAttrs, text)
        d5 == appendChild(d4, textNode, chars)
        d6 == appendChild(d5, runNode, textNode)
    IN  [dom |-> appendChild(d6, insNode, runNode), node |-> insNode]

\* Mutant: only the insertions are scanned for the maximum id.
InsertionNodesOnly(dom) ==
    getElementsByTagName(dom, dom.doc, "w:ins")

\* allChangeNodes: every w:ins, then every w:del.
AllChangeNodes(dom) ==
    getElementsByTagName(dom, dom.doc, "w:ins") \o getElementsByTagName(dom, dom.doc, "w:del")

\* allChangeNodes.forEach(...) from index i on with the running maxId.
RECURSIVE MaxIdLoop(_, _, _, _)
MaxIdLoop(dom, list, i, maxId) ==
    IF i > Len(list) THEN maxId
    ELSE LET attr == getAttribute(dom, list[i], "w:id")
             id == ParseInt(IF Truthy(attr) THEN attr ELSE <<"0">>)
         IN  MaxIdLoop(dom, list, i + 1, IF ~id.nan /\ id.val > maxId THEN id.val ELSE maxId)

\* Mutant: the new id is the greatest id in use.
NewChangeIdInUse(dom) == MaxIdLoop(dom, AllChangeNodes(dom), 1, 0)

\* newChangeId
NewChangeId(dom) == MaxIdLoop(dom, AllChangeNodes(dom), 1, 0) + 1

\* reviewerName?.trim() || "Anonymous Reviewer"
AnonymousReviewer ==
    <<"A", "n", "o", "n", "y", "m", "o", "u", "s", " ", "R", "e", "v", "i", "e", "w", "e", "r">>

AuthorName(reviewerName) ==
    IF reviewerName # Null /\ Truthy(Trim(reviewerName)) THEN Trim(reviewerName)
    ELSE AnonymousReviewer

\* The values of the changeType and action fields the code compares with.
\* No code looks inside them, so each is kept as one token.
Insertion == <<"insertion">>
Deletion == <<"deletion">>
Accept == <<"accept">>
Reject == <<"reject">>

\* Mutant: any proposed text makes a proposal, whatever the action.
ProposalOnAnyAction(req) ==
    Truthy(req.proposedText) /\ Trim(req.proposedText) # Empty

\* action === "accept" && proposedText && proposedText.trim() !== ""
IsProposal(req) ==
    req.action = Accept /\ Truthy(req.proposedText) /\ Trim(req.proposedText) # Empty

\* Mutant: the new insertion is put before the target and the target stays.
ProposalKeepsTarget(dom, req, now) ==
    LET nodes == getElementsByTagName(dom, dom.doc,
                     IF req.changeType = Insertion THEN "w:ins" ELSE "w:del")
        targetNode == FindById(dom, nodes, 1, req.changeId)
    IN  IF targetNode # NoNode /\ parentNode(dom, targetNode) # NoNode
        THEN LET made == createInsertionNode(dom, req.proposedText,
                             AuthorName(req.reviewerName), NewChangeId(dom), now)
             IN  Returned(insertBefore(made.dom, parentNode(dom, targetNode), made.node, targetNode))
        ELSE Threw(dom, NotFound("Node with ID not found or has no parent.", req.changeId))

\* The accept-with-proposal branch of POST.
AcceptWithProposal(dom, req, now) ==
    LET newChangeId == NewChangeId(dom)
        nodes == getElementsByTagName(dom, dom.doc,
                     IF req.changeType = Insertion THEN "w:ins" ELSE "w:del")
        targetNode == FindById(dom, nodes, 1, req.changeId)
    IN  IF targetNode # NoNode /\ parentNode(dom, targetNode) # NoNode
        THEN LET made == createInsertionNode(dom, req.proposedText,
                             AuthorName(req.reviewerName), newChangeId, now)
                 parent == parentNode(dom, targetNode)
             IN  Returned(removeChild(insertBefore(made.dom, parent, made.node, targetNode),
                                      parent, targetNode))
        ELSE Threw(dom, NotFound("Node with ID not found or has no parent.", req.changeId))

\* The plain branch of POST ("Apply the simple change").
SimpleChange(dom, req) ==
    IF req.action = Accept
    THEN IF req.changeType = Insertion THEN handleAcceptInsertion(dom, req.changeId)
         ELSE IF req.changeType = Deletion THEN handleAcceptDeletion(dom, req.changeId)
         ELSE Returned(dom)
    ELSE IF req.changeType = Insertion THEN handleRejectInsertion(dom, req.changeId)
         ELSE IF req.changeType = Deletion THEN handleRejectDeletion(dom, req.changeId)
         ELSE Returned(dom)

DocumentPart == "word/document.xml"

\* NextResponse.json({error, details}, {status})
JsonError(status, text, details) == [status |-> status, error |-> text, details |-> details]

\* formData.get("file") of a form without a file: null.
NoFile == [absent |-> TRUE]

IsFile(f) == "absent" \notin DOMAIN f

\* JSZip.loadAsync(file) resolves: the file is a zip archive.
Readable(f) == "parts" \in DOMAIN f

\* The Error JSZip.loadAsync rejects with.
ZipError == NotFound("Can't find end of central directory : is this a zip file ?", Empty)

\* The xmlDoc of a request that parsed none.
NoDocument == [doc |-> NoNode, nodes |-> <<>>]

\* Mutant: the archive returned holds the document body and no other part.
POSTReturnsBodyOnly(req, now) ==
    IF ~IsFile(req.file) \/ ~Truthy(req.changeId) \/ ~Truthy(req.action) \/ ~Truthy(req.changeType)
    THEN [response |-> JsonError(400, "Missing required fields", NoError), xmlDoc |-> NoDocument]
    ELSE IF ~Readable(req.file)
    THEN [response |-> JsonError(500, "Failed to process document", ZipError), xmlDoc |-> NoDocument]
    ELSE IF DocumentPart \notin DOMAIN req.file.parts
    THEN [response |-> JsonError(400, "Invalid DOCX file", NoError), xmlDoc |-> NoDocument]
    ELSE LET parsed == ParseFromString(req.file.parts[DocumentPart])
             done == IF IsProposal(req) THEN AcceptWithProposal(parsed, req, now)
                     ELSE SimpleChange(parsed, req)
         IN  IF done.threw
             THEN [response |-> JsonError(500, "Failed to process document", done.error),
                   xmlDoc |-> done.dom]
             ELSE [response |-> [status |-> 200,
                                 body |-> [parts |-> (DocumentPart :> SerializeToString(done.dom))]],
                   xmlDoc |-> done.dom]

\* Mutant: the form is not validated; a request lacking a field is processed.
POSTWithoutValidation(req, now) ==
    IF ~Readable(req.file)
    THEN [response |-> JsonError(500, "Failed to process document", ZipError), xmlDoc |-> NoDocument]
    ELSE IF DocumentPart \notin DOMAIN req.file.parts
    THEN [response |-> JsonError(400, "Invalid DOCX file", NoError), xmlDoc |-> NoDocument]
    ELSE LET parsed == ParseFromString(req.file.parts[DocumentPart])
             done == IF IsProposal(req) THEN AcceptWithProposal(parsed, req, now)
                     ELSE SimpleChange(parsed, req)
         IN  IF done.threw
             THEN [response |-> JsonError(500, "Failed to process document", done.error),
                   xmlDoc |-> done.dom]
             ELSE [response |-> [status |-> 200,
                                 body |-> [req.file EXCEPT !.parts[DocumentPart] =
                                              SerializeToString(done.dom)]],
                   xmlDoc |-> done.dom]

\* POST(request): [response, xmlDoc], the response and the DOM the handler
\* leaves.
POST(req, now) ==
    IF ~IsFile(req.file) \/ ~Truthy(req.changeId) \/ ~Truthy(req.action) \/ ~Truthy(req.changeType)
    THEN [response |-> JsonError(400, "Missing required fields", NoError), xmlDoc |-> NoDocument]
    ELSE IF ~Readable(req.file)
    THEN [response |-> JsonError(500, "Failed to process document", ZipError), xmlDoc |-> NoDocument]
    ELSE IF DocumentPart \notin DOMAIN req.file.parts
    THEN [response |-> JsonError(400, "Invalid DOCX file", NoError), xmlDoc |-> NoDocument]
    ELSE LET parsed == ParseFromString(req.file.parts[DocumentPart])
             done == IF IsProposal(req) THEN AcceptWithProposal(parsed, req, now)
                     ELSE SimpleChange(parsed, req)
         IN  IF done.threw
             THEN [response |-> JsonError(500, "Failed to process document", done.error),
                   xmlDoc |-> done.dom]
             ELSE [response |-> [status |-> 200,
                                 body |-> [req.file EXCEPT !.parts[DocumentPart] =
                                              SerializeToString(done.dom)]],
                   xmlDoc |-> done.dom]

(***************************************************************************)
(* docx-parser.ts: extraction (runs in the page, on the browser's DOM)     *)
(***************************************************************************)
RECURSIVE ConcatData(_, _)
ConcatData(dom, us) ==
    IF us = <<>> THEN Empty ELSE dom.nodes[Head(us)].data \o ConcatData(dom, Tail(us))

\* node.textContent: the character data below the node, in document order.
textContent(dom, u) == ConcatData(dom, Preorder(dom, u))

\* The text of the leaves of the list from index i on: raw when the leaf
\* has xml:space="preserve", trimmed otherwise.
RECURSIVE LeafText(_, _, _)
LeafText(dom, leaves, i) ==
    IF i > Len(leaves) THEN Empty
    ELSE (IF getAttribute(dom, leaves[i], "xml:space") = Preserve
          THEN textContent(dom, leaves[i])
          ELSE Trim(textContent(dom, leaves[i])))
         \o LeafText(dom, leaves, i + 1)

\* The second loop of getTextFromNode: the w:t of every w:r below the node.
RECURSIVE RunText(_, _, _)
RunText(dom, runNodes, i) ==
    IF i > Len(runNodes) THEN Empty
    ELSE LeafText(dom, getElementsByTagName(dom, runNodes[i], "w:t"), 1)
         \o RunText(dom, runNodes, i + 1)

\* Mutant: every leaf is trimmed, xml:space="preserve" or not.
RECURSIVE TextAlwaysTrimmed(_, _)
TextAlwaysTrimmed(dom, node) ==
    LET leaves == getElementsByTagName(dom, node, "w:t")
        RECURSIVE Trimmed(_)
        Trimmed(i) == IF i > Len(leaves) THEN Empty
                      ELSE Trim(textContent(dom, leaves[i])) \o Trimmed(i + 1)
    IN  Trimmed(1)

getTextFromNode(dom, node) ==
    LET text == LeafText(dom, getElementsByTagName(dom, node, "w:t"), 1)
    IN  IF text # Empty THEN text
        ELSE RunText(dom, getElementsByTagName(dom, node, "w:r"), 1)

\* The text extractChanges reads from a deletion: its w:delText leaves.
DeletedText(dom, node) == LeafText(dom, getElementsByTagName(dom, node, "w:delText"), 1)

\* element.getAttribute(name) of the browser: null when the attribute is absent.
getAttributeOrNull(dom, u, name) ==
    IF name \in DOMAIN dom.nodes[u].attrs THEN dom.nodes[u].attrs[name] ELSE Null

Or(s, default) == IF Truthy(s) THEN s ELSE default

Unknown == <<"U", "n", "k", "n", "o", "w", "n">>

\* node.parentElement: the parent when it is an element, null under the Document.
parentElement(dom, u) ==
    IF parentNode(dom, u) = NoNode \/ dom.nodes[parentNode(dom, u)].tag = "#document"
    THEN NoNode
    ELSE parentNode(dom, u)

\* element.children: the child elements (no character data).
children(dom, u) ==
    LET IsElement(v) == dom.nodes[v].tag # "#text" IN SelectSeq(dom.nodes[u].kids, IsElement)

\* Array.from(e.parentElement?.children || []).indexOf(e): -1 without a parent element.
ChildIndexOf(dom, e) ==
    IF parentElement(dom, e) = NoNode THEN 0 - 1
    ELSE IndexOf(children(dom, parentElement(dom, e)), e) - 1

\* String.prototype.includes
Includes(s, sub) ==
    \E i \in 1..(Len(s) + 1) :
        i + Len(sub) - 1 <= Len(s) /\ SubSeq(s, i, i + Len(sub) - 1) = sub

Heading == <<"H", "e", "a", "d", "i", "n", "g">>

\* Some w:pStyle below the element has a w:val that includes "Heading".
HasHeadingStyle(dom, current) ==
    \E v \in Range(getElementsByTagName(dom, current, "w:pStyle")) :
        /\ Truthy(getAttributeOrNull(dom, v, "w:val"))
        /\ Includes(getAttributeOrNull(dom, v, "w:val"), Heading)

\* The while loop of findSectionInfo from current up, with the paragraph
\* found so far: [paragraphElement, sectionElement].
RECURSIVE SectionWalk(_, _, _)
SectionWalk(dom, current, paragraphElement) ==
    IF current = NoNode
    THEN [paragraphElement |-> paragraphElement, sectionElement |-> NoNode]
    ELSE LET paragraph == IF dom.nodes[current].tag = "w:p" /\ paragraphElement = NoNode
                          THEN current ELSE paragraphElement
         IN  IF dom.nodes[current].tag \in {"w:sectPr", "w:body"} \/ HasHeadingStyle(dom, current)
             THEN [paragraphElement |-> paragraph, sectionElement |-> current]
             ELSE SectionWalk(dom, parentElement(dom, current), paragraph)

\* s.split('-')[0]
RECURSIVE BeforeDash(_)
BeforeDash(s) ==
    IF s = <<>> \/ Head(s) = "-" THEN <<>> ELSE <<Head(s)>> \o BeforeDash(Tail(s))

\* The values Math.random().toString(36).substr(2, 9) may take: two of them.
RandomSuffixes == {<<"k", "7">>, <<"q", "0">>}

\* findSectionInfo(node); suffix is what Math.random gives this call.
findSectionInfo(dom, node, suffix) ==
    LET found == SectionWalk(dom, parentElement(dom, node), NoNode)
        paragraphId ==
            IF found.paragraphElement # NoNode
            THEN <<"p", "a", "r", "a", "-">>
                     \o NumberToString(ChildIndexOf(dom, found.paragraphElement))
            ELSE <<"p", "a", "r", "a", "-", "u", "n", "k", "n", "o", "w", "n", "-">> \o suffix
        sectionId ==
            IF found.sectionElement # NoNode
            THEN <<"s", "e", "c", "t", "i", "o", "n", "-">>
                     \o NumberToString(ChildIndexOf(dom, found.sectionElement))
            ELSE BeforeDash(paragraphId) \o <<"-", "s", "e", "c", "t", "i", "o", "n">>
    IN  [sectionId |-> sectionId, paragraphId |-> paragraphId]

\* Mutant: the synthesized id counts from 1.
ChangeWithIdFromOne(dom, node, i, type, text, suffix) ==
    [id |-> Or(getAttributeOrNull(dom, node, "w:id"),
               (IF type = Insertion THEN <<"i", "n", "s", "-">> ELSE <<"d", "e", "l", "-">>)
                   \o NumberToString(i)),
     type |-> type,
     author |-> Or(getAttributeOrNull(dom, node, "w:author"), Unknown),
     date |-> getAttributeOrNull(dom, node, "w:date"),
     text |-> text,
     sectionId |-> findSectionInfo(dom, node, suffix).sectionId,
     paragraphId |-> findSectionInfo(dom, node, suffix).paragraphId]

\* The DocxChange of the i-th node (from 1) of its list; `ins-${i}` and
\* `del-${i}` count from 0.
ChangeOf(dom, node, i, type, text, suffix) ==
    [id |-> Or(getAttributeOrNull(dom, node, "w:id"),
               (IF type = Insertion THEN <<"i", "n", "s", "-">> ELSE <<"d", "e", "l", "-">>)
                   \o NumberToString(i - 1)),
     type |-> type,
     author |-> Or(getAttributeOrNull(dom, node, "w:author"), Unknown),
     date |-> getAttributeOrNull(dom, node, "w:date"),
     text |-> text,
     sectionId |-> findSectionInfo(dom, node, suffix).sectionId,
     paragraphId |-> findSectionInfo(dom, node, suffix).paragraphId]

\* The loops of extractChanges.  random gives the value of Math.random for
\* each node: the insertions take random[1..], the deletions follow.
RECURSIVE InsertionChanges(_, _, _, _)
InsertionChanges(dom, insertions, i, random) ==
    IF i > Len(insertions) THEN <<>>
    ELSE LET text == getTextFromNode(dom, insertions[i])
         IN  (IF text # Empty
              THEN <<ChangeOf(dom, insertions[i], i, Insertion, text, random[i])>>
              ELSE <<>>)
             \o InsertionChanges(dom, insertions, i + 1, random)

RECURSIVE DeletionChanges(_, _, _, _, _)
DeletionChanges(dom, deletions, i, random, offset) ==
    IF i > Len(deletions) THEN <<>>
    ELSE LET text == DeletedText(dom, deletions[i])
         IN  (IF text # Empty
              THEN <<ChangeOf(dom, deletions[i], i, Deletion, text, random[offset + i])>>
              ELSE <<>>)
             \o DeletionChanges(dom, deletions, i + 1, random, offset)

\* The try block of extractChanges throws: JSZip.loadAsync rejects or
\* there is no word/document.xml.
ExtractChangesThrows(f) == ~Readable(f) \/ DocumentPart \notin DOMAIN f.parts

\* Mutant: the deletions are listed before the insertions.
ExtractDeletionsFirst(f, random) ==
    IF ExtractChangesThrows(f) THEN <<>>
    ELSE LET dom == ParseFromString(f.parts[DocumentPart])
             insertions == getElementsByTagName(dom, dom.doc, "w:ins")
         IN  DeletionChanges(dom, getElementsByTagName(dom, dom.doc, "w:del"), 1,
                             random, Len(insertions))
             \o InsertionChanges(dom, insertions, 1, random)

\* extractChanges(file): the insertions, then the deletions; [] when the
\* try block throws (the catch returns it).
extractChanges(f, random) ==
    IF ExtractChangesThrows(f) THEN <<>>
    ELSE LET dom == ParseFromString(f.parts[DocumentPart])
             insertions == getElementsByTagName(dom, dom.doc, "w:ins")
         IN  InsertionChanges(dom, insertions, 1, random)
             \o DeletionChanges(dom, getElementsByTagName(dom, dom.doc, "w:del"), 1,
                                random, Len(insertions))

\* The outcomes of Math.random one extractChanges(file) may see.
Randoms(f) ==
    IF ExtractChangesThrows(f) THEN {<<>>}
    ELSE LET dom == ParseFromString(f.parts[DocumentPart])
         IN  [1..(Len(getElementsByTagName(dom, dom.doc, "w:ins"))
                  + Len(getElementsByTagName(dom, dom.doc, "w:del"))) -> RandomSuffixes]

CommentsPart == "word/comments.xml"

\* The DocxComment of the i-th w:comment (from 1); `comment-${i}` counts
\* from 0; an absent w:initials or w:parentId is undefined (here null).
CommentOf(dom, node, i, text) ==
    [id |-> Or(getAttributeOrNull(dom, node, "w:id"),
               <<"c", "o", "m", "m", "e", "n", "t", "-">> \o NumberToString(i - 1)),
     author |-> Or(getAttributeOrNull(dom, node, "w:author"), Unknown),
     date |-> getAttributeOrNull(dom, node, "w:date"),
     text |-> text,
     initials |-> Or(getAttributeOrNull(dom, node, "w:initials"), Null),
     parentCommentId |-> Or(getAttributeOrNull(dom, node, "w:parentId"), Null)]

RECURSIVE CommentList(_, _, _)
CommentList(dom, commentElements, i) ==
    IF i > Len(commentElements) THEN <<>>
    ELSE LET commentText == getTextFromNode(dom, commentElements[i])
         IN  (IF commentText # Empty
              THEN <<CommentOf(dom, commentElements[i], i, commentText)>>
              ELSE <<>>)
             \o CommentList(dom, commentElements, i + 1)

\* The try block of extractComments throws: JSZip.loadAsync rejects.
ExtractCommentsThrows(f) == ~Readable(f)

\* extractComments(file): [] when the try block throws (the catch returns
\* it) or there is no word/comments.xml.
extractComments(f) ==
    IF ExtractCommentsThrows(f) \/ CommentsPart \notin DOMAIN f.parts THEN <<>>
    ELSE LET dom == ParseFromString(f.parts[CommentsPart])
         IN  CommentList(dom, getElementsByTagName(dom, dom.doc, "w:comment"), 1)

(***************************************************************************)
(* The documents a session starts from                                     *)
(***************************************************************************)
Kinds == {Insertion, Deletion}

ChangeTag(kind) == IF kind = Insertion THEN "w:ins" ELSE "w:del"

\* The text leaf Word writes under a change of that kind.
LeafTag(kind) == IF kind = Insertion THEN "w:t" ELSE "w:delText"

\* <w:r><w:t>s</w:t></w:r>
Run(leaf, s) == Elem("w:r", NoAttrs, <<Elem(leaf, NoAttrs, <<Text(s)>>)>>)

\* A tracked change c = [kind, id] around kids; an Empty id is no w:id.
Change(c, kids) ==
    Elem(ChangeTag(c.kind),
         (IF c.id = Empty THEN NoAttrs ELSE ("w:id" :> c.id))
             @@ ("w:author" :> <<"A">>) @@ ("w:date" :> <<"D">>),
         kids)

\* <w:document><w:body>paragraphs</w:body></w:document>
Body(paragraphs) == Elem("w:document", NoAttrs, <<Elem("w:body", NoAttrs, paragraphs)>>)

P(kids) == Elem("w:p", NoAttrs, kids)

\* One change around three runs, between two plain runs.
Single(c) ==
    Body(<<P(<<Run("w:t", <<"a">>),
               Change(c, <<Run(LeafTag(c.kind), <<"b">>),
                           Run(LeafTag(c.kind), <<" ", "c">>),
                           Run(LeafTag(c.kind), <<"d">>)>>),
               Run("w:t", <<"e">>)>>)>>)

\* Two changes in two paragraphs.
Siblings(c1, c2) ==
    Body(<<P(<<Change(c1, <<Run(LeafTag(c1.kind), <<"b">>)>>), Run("w:t", <<"a">>)>>),
           P(<<Change(c2, <<Run(LeafTag(c2.kind), <<"c">>)>>)>>)>>)

\* A change inside a change.
Nested(c1, c2) ==
    Body(<<P(<<Run("w:t", <<"a">>),
               Change(c1, <<Run(LeafTag(c1.kind), <<"b">>),
                            Change(c2, <<Run(LeafTag(c2.kind), <<"c">>)>>),
                            Run(LeafTag(c1.kind), <<"d">>)>>)>>)>>)

\* <w:r><w:t attrs>s</w:t></w:r>
RunWith(leaf, attrs, s) == Elem("w:r", NoAttrs, <<Elem(leaf, attrs, <<Text(s)>>)>>)

\* A change node that declares no id, no author and no date.
Bare(kind, kids) == Elem(ChangeTag(kind), NoAttrs, kids)

\* One change whose only leaf, of the given tag, holds s, with or without
\* xml:space="preserve".
OneLeaf(c, leaf, preserve, s) ==
    Body(<<P(<<Run("w:t", <<"a">>),
               Change(c, <<RunWith(leaf, IF preserve THEN ("xml:space" :> Preserve) ELSE NoAttrs, s)>>)>>)>>)

\* A change that holds run properties and no text leaf (a formatting change).
FormattingOnly(c) ==
    Body(<<P(<<Run("w:t", <<"a">>),
               Change(c, <<Elem("w:r", NoAttrs, <<Elem("w:rPr", NoAttrs, <<>>)>>)>>)>>)>>)

\* A change with blank text, then a change without attributes.
BlankThenBare(c1, kind2) ==
    Body(<<P(<<Change(c1, <<Run(LeafTag(c1.kind), <<" ">>)>>), Run("w:t", <<"a">>)>>),
           P(<<Bare(kind2, <<Run(LeafTag(kind2), <<"c">>)>>)>>)>>)

\* A change right under the body, around a paragraph: it has no paragraph
\* ancestor.  A second change sits in the paragraph.
AroundParagraph(c1, c2) ==
    Body(<<P(<<Run("w:t", <<"a">>)>>),
           Change(c1, <<P(<<Run(LeafTag(c1.kind), <<"b">>),
                            Change(c2, <<Run(LeafTag(c2.kind), <<"c">>)>>)>>)>>)>>)

\* A change in a heading paragraph, the second paragraph of the body.
InHeading(c) ==
    Body(<<P(<<Run("w:t", <<"a">>)>>),
           P(<<Elem("w:pPr", NoAttrs,
                    <<Elem("w:pStyle", ("w:val" :> (Heading \o <<"1">>)), <<>>)>>),
               Change(c, <<Run(LeafTag(c.kind), <<"b">>)>>)>>)>>)

\* A document whose root is a paragraph: no body around the change.
NoBody(c) == P(<<Change(c, <<Run(LeafTag(c.kind), <<"b">>)>>)>>)

InitDocuments ==
    {Single([kind |-> k, id |-> i]) : k \in Kinds, i \in {<<"3">>, <<"x">>, Empty}}
    \cup {Siblings([kind |-> k1, id |-> i1], [kind |-> k2, id |-> i2]) :
            k1 \in Kinds, i1 \in {<<"3">>, <<"x">>},
            k2 \in Kinds, i2 \in {<<"3">>, <<"9">>, Empty}}
    \cup {Siblings([kind |-> k1, id |-> <<"3">>], [kind |-> k2, id |-> <<"2">>]) :
            k1 \in Kinds, k2 \in Kinds}
    \cup {Nested([kind |-> k1, id |-> <<"3">>], [kind |-> k2, id |-> i2]) :
            k1 \in Kinds, k2 \in Kinds, i2 \in {<<"3">>, <<"9">>}}
    \cup {OneLeaf([kind |-> k, id |-> <<"3">>], leaf, preserve, s) :
            k \in Kinds, leaf \in {"w:t", "w:delText"}, preserve \in BOOLEAN,
            s \in {<<" ">>, <<" ", "c", " ">>}}
    \cup {FormattingOnly([kind |-> k, id |-> <<"3">>]) : k \in Kinds}
    \cup {BlankThenBare([kind |-> k1, id |-> <<"3">>], k2) : k1 \in Kinds, k2 \in Kinds}
    \cup {AroundParagraph([kind |-> k1, id |-> <<"3">>], [kind |-> k2, id |-> <<"9">>]) :
            k1 \in Kinds, k2 \in Kinds}
    \cup {InHeading([kind |-> k, id |-> <<"3">>]) : k \in Kinds}
    \cup {NoBody([kind |-> k, id |-> <<"3">>]) : k \in Kinds}

\* <w:comment> with the given attributes around one paragraph of text s.
Comment(attrs, s) == Elem("w:comment", attrs, <<P(<<Run("w:t", s)>>)>>)

\* word/comments.xml: a comment, a reply to it without a w:id, and a
\* comment with blank text.
CommentsDocument ==
    Elem("w:comments", NoAttrs,
         <<Comment(("w:id" :> <<"0">>) @@ ("w:author" :> <<"A">>) @@ ("w:date" :> <<"D">>)
                       @@ ("w:initials" :> <<"A">>), <<"n">>),
           Comment(("w:parentId" :> <<"0">>), <<"m">>),
           Comment(("w:id" :> <<"2">>), <<" ">>)>>)

\* A .docx with that document body and no comments part.
Package(document) == [parts |-> (DocumentPart :> document)]

\* A .docx with that document body and the comments part.
PackageWithComments(document) ==
    [parts |-> (DocumentPart :> document) @@ (CommentsPart :> CommentsDocument)]

\* A .docx archive without word/document.xml.
PackageWithoutDocument == [parts |-> (CommentsPart :> CommentsDocument)]

\* A file named .docx that is no zip archive.
Unreadable == [garbage |-> TRUE]

InitFiles ==
    {Package(d) : d \in InitDocuments}
    \cup {PackageWithComments(Siblings([kind |-> k, id |-> <<"3">>], [kind |-> k, id |-> i])) :
            k \in Kinds, i \in {<<"9">>, Empty}}
    \cup {PackageWithoutDocument, Unreadable}

(***************************************************************************)
(* part_000: groupChangesBySection (the section classifier of the page)    *)
(***************************************************************************)
UpperCase == <<"A", "B", "C", "D", "E", "F", "G", "H", "I", "J", "K", "L", "M", "N", "O", "P", "Q", "R", "S", "T", "U", "V", "W", "X", "Y", "Z">>

LowerCase == <<"a", "b", "c", "d", "e", "f", "g", "h", "i", "j", "k", "l", "m", "n", "o", "p", "q", "r", "s", "t", "u", "v", "w", "x", "y", "z">>

\* String.prototype.toLowerCase, on the letters A-Z.
toLowerCase(s) ==
    [i \in 1..Len(s) |->
        IF \E k \in 1..26 : UpperCase[k] = s[i]
        THEN LowerCase[CHOOSE k \in 1..26 : UpperCase[k] = s[i]]
        ELSE s[i]]

\* s.split(/\s+/): the pieces of s between its runs of white space; acc is
\* the piece being read, inSpace whether the last character was white space.
RECURSIVE Split(_, _, _)
Split(s, acc, inSpace) ==
    IF s = <<>> THEN <<acc>>
    ELSE IF IsSpace(Head(s))
    THEN IF inSpace THEN Split(Tail(s), acc, TRUE)
         ELSE <<acc>> \o Split(Tail(s), <<>>, TRUE)
    ELSE Split(Tail(s), Append(acc, Head(s)), FALSE)

\* section.title.toLowerCase().split(/\s+/).filter(word => word.length > 3)
sectionWords(section) ==
    LET Significant(word) == Len(word) > 3
    IN  SelectSeq(Split(toLowerCase(section.title), <<>>, FALSE), Significant)

\* sectionWords.filter(word => changeText.includes(word)).length
matchCount(change, section) ==
    LET changeText == toLowerCase(change.text)
        Occurs(word) == Includes(changeText, word)
    IN  Len(SelectSeq(sectionWords(section), Occurs))

\* The test of the text match: matchCount > 0 && matchCount /
\* sectionWords.length > 0.3 (the quotient of two small integers is above
\* 0.3 exactly when 10 * matchCount > 3 * length).
TextMatches(change, section) ==
    /\ matchCount(change, section) > 0
    /\ 10 * matchCount(change, section) > 3 * Len(sectionWords(section))

\* The digits s starts with.
RECURSIVE LeadingDigits(_)
LeadingDigits(s) ==
    IF s # <<>> /\ IsDigit(Head(s)) THEN <<Head(s)>> \o LeadingDigits(Tail(s)) ELSE <<>>

\* id.match(/(\d+)/): the first run of digits of id, null when it has none.
RECURSIVE FirstDigits(_)
FirstDigits(id) ==
    IF id = <<>> THEN Null
    ELSE IF IsDigit(Head(id)) THEN LeadingDigits(id)
    ELSE FirstDigits(Tail(id))

extractPosition(id) ==
    IF FirstDigits(id) = Null THEN 0 ELSE ParseInt(FirstDigits(id)).val

\* No section: findBestMatchingSection returns null.
NoSection == [level |-> 0, number |-> Null, title |-> Null, id |-> Null]

\* The for loop of findBestMatchingSection from section i: the first
\* section the text matches.
RECURSIVE FirstTextMatch(_, _, _)
FirstTextMatch(change, contractSections_, i) ==
    IF i > Len(contractSections_) THEN NoSection
    ELSE IF TextMatches(change, contractSections_[i]) THEN contractSections_[i]
    ELSE FirstTextMatch(change, contractSections_, i + 1)

Min(a, b) == IF a < b THEN a ELSE b

\* findBestMatchingSection(change): the first section matching the text of
\* a change of more than 10 characters; else the section at the position
\* estimated from the number in the change's sectionId or paragraphId
\* (Math.floor((position / 100) * length), at most the last one); null
\* when there are no sections.
findBestMatchingSection(change, contractSections_) ==
    IF Len(contractSections_) = 0 THEN NoSection
    ELSE LET byText == IF Truthy(change.text) /\ Len(change.text) > 10
                       THEN FirstTextMatch(change, contractSections_, 1)
                       ELSE NoSection
             changePosition ==
                 extractPosition(Or(change.sectionId, Or(change.paragraphId, <<"0">>)))
             sectionIndex ==
                 Min((changePosition * Len(contractSections_)) \div 100,
                     Len(contractSections_) - 1)
         IN  IF byText # NoSection THEN byText ELSE contractSections_[sectionIndex + 1]

unknown == <<"u", "n", "k", "n", "o", "w", "n">>

DocumentSection == <<"D", "o", "c", "u", "m", "e", "n", "t", " ", "S", "e", "c", "t", "i", "o", "n">>

\* The forEach of groupChangesBySection from change i.  A date of the
\* model's documents is no timestamp (new Date(date) is an Invalid Date,
\* which compares false with every date): latestDate is that of the first
\* dated change of the group.
RECURSIVE GroupLoop(_, _, _, _)
GroupLoop(changes_, contractSections_, i, grouped) ==
    IF i > Len(changes_) THEN grouped
    ELSE LET change == changes_[i]
             matchingSection == findBestMatchingSection(change, contractSections_)
             sectionId == IF matchingSection # NoSection THEN matchingSection.id
                          ELSE Or(change.sectionId, Or(change.paragraphId, unknown))
             sectionName == IF matchingSection # NoSection THEN matchingSection.title
                            ELSE DocumentSection
             group == IF sectionId \in DOMAIN grouped THEN grouped[sectionId]
                      ELSE [changes |-> <<>>, sectionName |-> sectionName, latestDate |-> Null]
             latestDate == IF Truthy(change.date) /\ group.latestDate = Null
                           THEN change.date ELSE group.latestDate
         IN  GroupLoop(changes_, contractSections_, i + 1,
                       (sectionId :> [changes |-> Append(group.changes, change),
                                      sectionName |-> group.sectionName,
                                      latestDate |-> latestDate]) @@ grouped)

\* groupChangesBySection(changes, contractSections): the groups by section
\* id.  The sort of each group by date leaves it as it is: the comparator
\* yields NaN or 0 for dates that are no timestamps, and the sort is stable.
groupChangesBySection(changes_, contractSections_) ==
    GroupLoop(changes_, contractSections_, 1, [key \in {} |-> NoSection])

\* A heading of the contract, as /api/parse-contract returns it.
Section(number, title, id) == [level |-> 1, number |-> number, title |-> title, id |-> id]

PaymentTerms ==
    Section(<<"1">>, <<"P", "a", "y", "m", "e", "n", "t", " ", "T", "e", "r", "m", "s">>, <<"s", "e", "c", "t", "i", "o", "n", "-", "p", "a", "y", "m", "e", "n", "t", "-", "t", "e", "r", "m", "s">>)

\* Four significant words: one of them is 25% of the heading, two are 50%.
LiabilityCap ==
    Section(<<"2">>, <<"L", "i", "m", "i", "t", "a", "t", "i", "o", "n", " ", "O", "f", " ", "L", "i", "a", "b", "i", "l", "i", "t", "y", " ", "A", "n", "d", " ", "D", "a", "m", "a", "g", "e", "s", " ", "C", "l", "a", "i", "m", "s">>, <<"s", "e", "c", "t", "i", "o", "n", "-", "l", "i", "a", "b", "i", "l", "i", "t", "y">>)

\* The lists of headings parseContractSections may return; none when the
\* request fails or the document has no headings.
SectionLists ==
    {<<>>, <<PaymentTerms>>, <<LiabilityCap>>, <<PaymentTerms, LiabilityCap>>,
     <<LiabilityCap, PaymentTerms>>}

\* The texts of the changes of the classified documents.
ChangeTexts ==
    {<<"l", "a", "t", "e", " ", "p", "a", "y", "m", "e", "n", "t", " ", "f", "e", "e">>,
     <<"d", "a", "m", "a", "g", "e", "s", " ", "o", "n", "l", "y">>,
     <<"d", "a", "m", "a", "g", "e", "s", " ", "a", "n", "d", " ", "l", "i", "a", "b", "i", "l", "i", "t", "y">>,
     <<"p", "a", "y", "m", "e", "n", "t">>,
     <<"n", "o", "t", "h", "i", "n", "g", " ", "r", "e", "l", "e", "v", "a", "n", "t">>,
     <<"p", "a", "y", "m", "e", "n", "t", " ", "o", "f", " ", "d", "a", "m", "a", "g", "e", "s", " ", "a", "n", "d", " ", "c", "l", "a", "i", "m", "s">>}

\* One paragraph for each text: a run, then a change around the text.
RECURSIVE WithTexts(_, _, _)
WithTexts(kind, texts, i) ==
    IF i > Len(texts) THEN <<>>
    ELSE <<P(<<Run("w:t", <<"a">>),
               Change([kind |-> kind, id |-> NumberToString(i + 2)],
                      <<Run(LeafTag(kind), texts[i])>>)>>)>>
         \o WithTexts(kind, texts, i + 1)

\* The files whose changes are classified: one change each, and one file
\* with two changes.
GroupFiles ==
    {Package(Body(WithTexts(Insertion, <<s>>, 1))) : s \in ChangeTexts}
    \cup {Package(Body(WithTexts(Deletion, <<<<"l", "a", "t", "e", " ", "p", "a", "y", "m", "e", "n", "t", " ", "f", "e", "e">>,
                                            <<"n", "o", "t", "h", "i", "n", "g", " ", "r", "e", "l", "e", "v", "a", "n", "t">>>>, 1)))}

(***************************************************************************)
(* Requests                                                                *)
(***************************************************************************)
\* The w:id values the change nodes of the file's document declare.
DeclaredIds(f) ==
    IF ~Readable(f) \/ DocumentPart \notin DOMAIN f.parts THEN {}
    ELSE LET dom == ParseFromString(f.parts[DocumentPart])
             all == AllChangeNodes(dom)
         IN  {getAttribute(dom, all[i], "w:id") : i \in 1..Len(all)} \ {Empty}

\* An id no document of a session declares.
StaleId == <<"7">>

ChangeTypes == {Insertion, Deletion, <<"comment">>}

Actions == {Accept, Reject}

ProposedTexts == {Null, Empty, <<" ">>, <<" ", "q">>}

ReviewerNames == {Null, <<" ">>, <<"R", " ">>}

\* new Date().toISOString()
Clock == {<<"T">>}

(***************************************************************************)
(* The state machine                                                       *)
(***************************************************************************)
\* No request sent, no response received.
NoRequest ==
    [file |-> NoFile, changeId |-> Null, changeType |-> Null, action |-> Null,
     proposedText |-> Null, reviewerName |-> Null]

NoResponse == [status |-> 0]

\* An Error with the given message.
ErrorWith(message) == [message |-> message, id |-> Empty]

\* Whether renderAsync(file, viewer) of docx-preview throws: it does for a
\* file that is no archive, and may for an archive without a document body.
RenderThrows(f) ==
    IF ~Readable(f) THEN {TRUE}
    ELSE IF DocumentPart \notin DOMAIN f.parts THEN {TRUE, FALSE}
    ELSE {FALSE}

\* The page after a .docx among files was chosen and handleFileChange has
\* finished: the file, the changes extracted from it, the headings
\* parseContractSections returned (among sectionLists), and the error of a
\* rendering that failed.
InitWith(files, sectionLists) ==
    /\ file \in files
    /\ changes \in {extractChanges(file, random) : random \in Randoms(file)}
    /\ processedChanges = <<>>
    /\ contractSections \in sectionLists
    /\ isLoading = FALSE
    /\ error \in {IF throws THEN ErrorWith("Failed to process the document.") ELSE NoError :
                    throws \in RenderThrows(file)}
    /\ isProcessing = FALSE
    /\ loading = <<>>
    /\ inFlight = <<>>
    /\ nLoads = 0
    /\ request = NoRequest
    /\ xmlDoc = NoDocument
    /\ response = NoResponse
    /\ pc = "idle"
    /\ nOps = 0

Init == InitWith(InitFiles, {<<>>})

\* The ids a request may name: those of the page's list, those the
\* document declares and a stale one.
RequestIds ==
    {changes[i].id : i \in 1..Len(changes)} \cup DeclaredIds(file) \cup {StaleId}

\* The request is one the page sends: handleRedlineAction(change, action)
\* for a change of its list.  Any other request comes from another client
\* of the route.
FromPage(req) ==
    \E i \in 1..Len(changes) : changes[i].id = req.changeId /\ changes[i].type = req.changeType

\* Mutant: the buttons of a change card are never disabled.
NeverDisabled == FALSE

\* disabled={isProcessing} of the three buttons of a change card.
Disabled == isProcessing

\* A client posts the form to /api/redline and the route handles it.
\* reviewerName is read by the proposal branch only, and a reject reads
\* proposedText in the test of that branch only.  The page sends the form
\* from a button of a change card (handleRedlineAction up to the fetch);
\* another client of the route sends it when the last call is over.
SendRedline ==
    /\ nOps < MaxOps
    /\ \E changeId \in RequestIds,
          changeType \in ChangeTypes, action \in Actions,
          proposedText \in ProposedTexts, reviewerName \in ReviewerNames, now \in Clock :
          LET req == [file |-> file, changeId |-> changeId, changeType |-> changeType,
                      action |-> action, proposedText |-> proposedText,
                      reviewerName |-> reviewerName]
              out == POST(req, now)
          IN  /\ IsProposal(req) \/ reviewerName = Null
              /\ action = Reject => proposedText \in {Null, <<" ", "q">>}
              /\ IF FromPage(req)
                 THEN /\ ~Disabled
                      /\ isProcessing' = TRUE
                      /\ error' = NoError
                      /\ inFlight' = Append(inFlight, [request |-> req,
                                                       response |-> out.response,
                                                       loads |-> nLoads])
                 ELSE /\ pc = "idle"
                      /\ UNCHANGED <<isProcessing, error, inFlight>>
              /\ request' = req
              /\ response' = out.response
              /\ xmlDoc' = out.xmlDoc
    /\ pc' = "responded"
    /\ nOps' = nOps + 1
    /\ UNCHANGED <<file, changes, processedChanges, contractSections, isLoading, loading, nLoads>>

\* The ProcessedChange the page records for a request.
ProcessedChange(req) ==
    [id |-> req.changeId, type |-> req.changeType,
     action |-> IF req.action = Accept THEN "accepted" ELSE "rejected"]

\* prevChanges.filter((c) => c.id !== id)
WithoutId(list, id) == LET Keep(c) == c.id # id IN SelectSeq(list, Keep)

\* The sequence without its i-th element.
RemoveAt(s, i) == SubSeq(s, 1, i - 1) \o SubSeq(s, i + 1, Len(s))

\* Mutant: the catch sets no error.
NoErrorShown(got) == NoError

\* new Error(errorData.details || "Failed to update document."), which the
\* page shows as `Error: ${message}`.
ErrorShown(got) ==
    IF got.details.message # "" THEN got.details ELSE ErrorWith("Failed to update document.")

\* The call variables once the fetches awaiting a response are rest.
Answered(rest) ==
    IF rest = <<>>
    THEN /\ request' = NoRequest
         /\ response' = NoResponse
         /\ xmlDoc' = NoDocument
         /\ pc' = "idle"
    ELSE UNCHANGED call

\* handleRedlineAction after the fetch: a fetch that rejected or a response
\* that is not ok throws, the catch leaves file and lists as they are and
\* sets the error; an ok response
\* becomes the page's file (setFile(newFile)), the change is appended to
\* the history and every change with its id leaves the list; finally
\* isProcessing is reset.  The response to another client does not reach
\* the page.
ReceiveResponse ==
    /\ pc = "responded"
    /\ IF inFlight = <<>>
       THEN /\ Answered(<<>>)
            /\ UNCHANGED page
       ELSE \E i \in 1..Len(inFlight) :
               LET sent == inFlight[i].request
                   got == inFlight[i].response
               IN  /\ IF got.status = 200
                      THEN /\ file' = got.body
                           /\ processedChanges' = Append(processedChanges, ProcessedChange(sent))
                           /\ changes' = WithoutId(changes, sent.changeId)
                           /\ UNCHANGED error
                      ELSE /\ error' = ErrorShown(got)
                           /\ UNCHANGED <<file, processedChanges, changes>>
                   /\ isProcessing' = FALSE
                   /\ inFlight' = RemoveAt(inFlight, i)
                   /\ Answered(RemoveAt(inFlight, i))
                   /\ UNCHANGED <<contractSections, isLoading, loading, nLoads>>
    /\ UNCHANGED nOps

Next == SendRedline \/ ReceiveResponse

Spec == Init /\ [][Next]_vars

\* The forms that lack one required field: the field is absent (null) or
\* empty, the others are those of an accept of an insertion.
IncompleteRequests ==
    LET complete(changeId) ==
            [file |-> file, changeId |-> changeId, changeType |-> Insertion,
             action |-> Accept, proposedText |-> Null, reviewerName |-> Null]
    IN  UNION {{[complete(changeId) EXCEPT !.file = NoFile]}
               \cup {[complete(changeId) EXCEPT ![field] = blank] :
                        field \in {"changeId", "changeType", "action"},
                        blank \in {Null, Empty}} : changeId \in RequestIds}

\* A client of the route posts a form that lacks a required field.
SendIncomplete ==
    /\ pc = "idle"
    /\ nOps < MaxOps
    /\ \E req \in IncompleteRequests, now \in Clock :
          LET out == POST(req, now)
          IN  /\ request' = req
              /\ response' = out.response
              /\ xmlDoc' = out.xmlDoc
    /\ pc' = "responded"
    /\ nOps' = nOps + 1
    /\ UNCHANGED page

\* The TypeError of a fetch that fails (its message is the browser's).
NetworkError == ErrorWith("Failed to fetch")

\* What a fetch that rejects gives the page: no response, the TypeError.
NetworkFailure == JsonError(0, "", NetworkError)

\* The network fails while a fetch of the page awaits its response: the
\* fetch will reject.
FetchRejected ==
    /\ \E i \in 1..Len(inFlight) :
          /\ inFlight[i].response # NetworkFailure
          /\ inFlight' = [inFlight EXCEPT ![i].response = NetworkFailure]
    /\ UNCHANGED <<file, changes, processedChanges, contractSections, isLoading, error,
                   isProcessing, loading, nLoads, call, nOps>>

\* The files a user uploads during a session.
UploadFiles == {Package(Single([kind |-> Deletion, id |-> <<"3">>])), Unreadable}

\* handleFileChange up to its await: the uploaded file becomes the page's
\* file and the lists are emptied.  (Every file of the model is named
\* .docx.)
handleFileChange ==
    /\ nOps < MaxOps
    /\ \E uploadedFile \in UploadFiles :
          /\ file' = uploadedFile
          /\ loading' = Append(loading, [file |-> uploadedFile, reload |-> FALSE])
    /\ isLoading' = TRUE
    /\ error' = NoError
    /\ changes' = <<>>
    /\ processedChanges' = <<>>
    /\ contractSections' = <<>>
    /\ nLoads' = nLoads + 1
    /\ nOps' = nOps + 1
    /\ UNCHANGED <<isProcessing, inFlight, call>>

\* handleReload up to its await (the menu item is disabled while isLoading).
handleReload ==
    /\ nOps < MaxOps
    /\ ~isLoading
    /\ IsFile(file)
    /\ loading' = Append(loading, [file |-> file, reload |-> TRUE])
    /\ isLoading' = TRUE
    /\ error' = NoError
    /\ changes' = <<>>
    /\ processedChanges' = <<>>
    /\ contractSections' = <<>>
    /\ nLoads' = nLoads + 1
    /\ nOps' = nOps + 1
    /\ UNCHANGED <<file, isProcessing, inFlight, call>>

\* handleFileChange and handleReload after their await: the changes
\* extracted from the file the handler was started with and the headings
\* parsed from it (none here) are set, the file is rendered, and isLoading
\* is reset.
FinishLoad ==
    /\ loading # <<>>
    /\ \E i \in 1..Len(loading) :
          /\ \E random \in Randoms(loading[i].file) :
                changes' = extractChanges(loading[i].file, random)
          /\ \E throws \in RenderThrows(loading[i].file) :
                error' = IF ~throws THEN error
                         ELSE IF loading[i].reload
                         THEN ErrorWith("Failed to reload the document.")
                         ELSE ErrorWith("Failed to process the document.")
          /\ loading' = RemoveAt(loading, i)
    /\ contractSections' = <<>>
    /\ isLoading' = FALSE
    /\ UNCHANGED <<file, processedChanges, isProcessing, inFlight, nLoads, call, nOps>>

\* The files of the sessions with uploads and reloads.
PageFiles ==
    {Package(Single([kind |-> Insertion, id |-> <<"3">>])),
     Package(Single([kind |-> Insertion, id |-> Empty])),
     Package(Siblings([kind |-> Insertion, id |-> <<"3">>], [kind |-> Deletion, id |-> <<"3">>])),
     Package(Siblings([kind |-> Deletion, id |-> <<"3">>], [kind |-> Insertion, id |-> <<"9">>])),
     Package(Nested([kind |-> Insertion, id |-> <<"3">>], [kind |-> Deletion, id |-> <<"9">>])),
     PackageWithoutDocument}

PageInit == InitWith(PageFiles, {<<>>})

PageNext ==
    Next \/ SendIncomplete \/ FetchRejected \/ handleFileChange \/ handleReload \/ FinishLoad

\* The sessions with incomplete forms, failing fetches, uploads and reloads.
PageSpec == PageInit /\ [][PageNext]_vars

GroupInit == InitWith(GroupFiles, SectionLists)

\* The sessions on the documents whose changes are classified by section.
GroupSpec == GroupInit /\ [][Next]_vars

(***************************************************************************)
(* Vocabulary of the properties.  In a "responded" state request.file is   *)
(* the document the call was given and xmlDoc the tree it left; a node     *)
(* keeps its uid across the call.                                          *)
(***************************************************************************)
Responded == pc = "responded"

Succeeded == Responded /\ response.status = 200

\* The call was given an archive with a document body and parsed it.
Parsed == Responded /\ xmlDoc # NoDocument

\* The call failed with the error thrown when the change is not found, and
\* its response carries no document bytes.
FailedNotFound ==
    /\ response.status = 500
    /\ response.details.message \in {"Insertion with ID not found.",
                                     "Deletion with ID not found.",
                                     "Node with ID not found or has no parent."}
    /\ "body" \notin DOMAIN response

\* The tree the call parsed.
Before == ParseFromString(request.file.parts[DocumentPart])

\* The lists extractChanges(file) may return, one for each outcome of
\* Math.random.
Extractions(f) == {extractChanges(f, random) : random \in Randoms(f)}

\* The nodes of the tree: those the document reaches.
InTree(dom) == Range(Preorder(dom, dom.doc))

Subtree(dom, u) == Range(Preorder(dom, u))

\* The position of a node of the tree in document order.
DocPos(dom, u) == IndexOf(Preorder(dom, dom.doc), u)

\* The element tag of a kind; no element for any other kind tag.
KindTag(type) ==
    IF type = Insertion THEN "w:ins" ELSE IF type = Deletion THEN "w:del" ELSE "(none)"

\* The nodes of the given kind carrying the given id.
Carriers(dom, type, id) ==
    {u \in InTree(dom) : /\ dom.nodes[u].tag = KindTag(type)
                         /\ "w:id" \in DOMAIN dom.nodes[u].attrs
                         /\ dom.nodes[u].attrs["w:id"] = id}

\* The first carrier in document order.
FirstCarrier(dom, type, id) ==
    CHOOSE u \in Carriers(dom, type, id) :
        \A v \in Carriers(dom, type, id) : DocPos(dom, u) <= DocPos(dom, v)

\* The node the request names, its parent and its index there, before the call.
Target == FirstCarrier(Before, request.changeType, request.changeId)

TargetParent == parentNode(Before, Target)

TargetIndex == IndexOf(Before.nodes[TargetParent].kids, Target)

\* s with the element at index k replaced by the sequence r.
Splice(s, k, r) == SubSeq(s, 1, k - 1) \o r \o SubSeq(s, k + 1, Len(s))

PlainCall(type, action) ==
    Succeeded /\ ~IsProposal(request) /\ request.changeType = type /\ request.action = action

ProposalCall == Succeeded /\ IsProposal(request)

(***************************************************************************)
(* C1  (route.ts 42-103, 147-174)                                          *)
(***************************************************************************)
\* C1: whenever no node of the requested kind carries the requested id (the
\* id is absent, sits only on a node of the other kind, or the kind tag is
\* neither insertion nor deletion), the request fails with the not-found
\* error and returns no document bytes.
C1_NotFoundFails ==
    (Parsed /\ Carriers(Before, request.changeType, request.changeId) = {})
        => FailedNotFound

\* C1 restricted to the two kind tags the handlers know: there the code
\* does fail as stated.
C1_NotFoundFailsForKnownKinds ==
    (/\ Parsed
     /\ request.changeType \in Kinds
     /\ Carriers(Before, request.changeType, request.changeId) = {})
        => FailedNotFound

(***************************************************************************)
(* C2  (route.ts 132-145)                                                  *)
(***************************************************************************)
\* The integer an id counts as: the integer it parses to, 0 when it parses
\* to none or is missing.
IdValue(dom, u) ==
    LET n == ParseInt(getAttribute(dom, u, "w:id")) IN IF n.nan THEN 0 ELSE n.val

ChangeNodeSet(dom) == {u \in InTree(dom) : dom.nodes[u].tag \in {"w:ins", "w:del"}}

MaxOf(S) == CHOOSE m \in S : \A x \in S : x <= m

\* The w:ins element the call created.
NewNodes == {u \in InTree(xmlDoc) : u \notin DOMAIN Before.nodes /\ xmlDoc.nodes[u].tag = "w:ins"}

NewNode == CHOOSE u \in NewNodes : TRUE

\* C2: the id of the insertion an accept-with-proposal creates is 1 + the
\* maximum integer id over the insertion and deletion nodes together (0 for
\* ids that are no integer or are missing), so it exceeds the id of every
\* change node of the tree before the call, the target's included.
C2_NewIdIsMaxPlusOne ==
    ProposalCall =>
        /\ Cardinality(NewNodes) = 1
        /\ xmlDoc.nodes[NewNode].attrs["w:id"] =
              NumberToString(1 + MaxOf({0} \cup {IdValue(Before, u) : u \in ChangeNodeSet(Before)}))
        /\ \A u \in ChangeNodeSet(Before) :
              IdValue(Before, u) < ParseInt(xmlDoc.nodes[NewNode].attrs["w:id"]).val

\* A proposal on insertion 3 of a document whose deletion carries 9: the
\* new id is 10.
C2_Witness ==
    /\ ProposalCall
    /\ request.changeType = Insertion /\ request.changeId = <<"3">>
    /\ Carriers(Before, Deletion, <<"9">>) # {}
    /\ xmlDoc.nodes[NewNode].attrs["w:id"] = <<"1", "0">>

(***************************************************************************)
(* C3, C4  (route.ts 42-59, 86-103)                                        *)
(***************************************************************************)
\* The call unwrapped its target: the parent's children are the old ones
\* with the target replaced, at its index, by the target's children in
\* their order, the target is out of the tree, and the bytes returned are
\* that tree.
Unwrapped ==
    /\ xmlDoc.nodes[TargetParent].kids =
          Splice(Before.nodes[TargetParent].kids, TargetIndex, Before.nodes[Target].kids)
    /\ Target \notin InTree(xmlDoc)
    /\ Subtree(Before, Target) \ {Target} \subseteq InTree(xmlDoc)
    /\ response.body.parts[DocumentPart] = SerializeToString(xmlDoc)

\* C3: accepting an insertion without a proposal replaces the wrapper, at
\* its index k in its parent, by its children c1..cn in their order; no
\* wrapper remains.
C3_AcceptInsertionUnwraps == PlainCall(Insertion, Accept) => Unwrapped

\* An insertion with three children and a sibling on each side was accepted.
C3_Witness ==
    /\ PlainCall(Insertion, Accept)
    /\ Len(Before.nodes[Target].kids) = 3
    /\ TargetIndex = 2
    /\ Len(xmlDoc.nodes[TargetParent].kids) = 5

\* C4: rejecting a deletion splices the deletion's children into its parent
\* at the deletion's position in their order and removes the wrapper; no
\* child is dropped or reordered.
C4_RejectDeletionUnwraps == PlainCall(Deletion, Reject) => Unwrapped

\* A deletion with three children and a sibling on each side was rejected.
C4_Witness ==
    /\ PlainCall(Deletion, Reject)
    /\ Len(Before.nodes[Target].kids) = 3
    /\ TargetIndex = 2
    /\ Len(xmlDoc.nodes[TargetParent].kids) = 5

(***************************************************************************)
(* C5, C6  (route.ts 61-84)                                                *)
(***************************************************************************)
\* The call removed its target with its whole subtree: the parent lost the
\* target and nothing else, no node of the target's subtree is in the tree,
\* and the bytes returned are that tree.
RemovedWithSubtree ==
    /\ xmlDoc.nodes[TargetParent].kids = Splice(Before.nodes[TargetParent].kids, TargetIndex, <<>>)
    /\ Subtree(Before, Target) \cap InTree(xmlDoc) = {}
    /\ response.body.parts[DocumentPart] = SerializeToString(xmlDoc)

\* The target is the only tracked change of the document: every other
\* change node lies inside it.
TargetIsOnlyChange == ChangeNodeSet(Before) \subseteq Subtree(Before, Target)

\* C5: rejecting an insertion removes the insertion node with its whole
\* subtree, change nodes nested in it included; when that insertion is the
\* document's single tracked change, extraction from the returned document
\* yields the empty list.
C5_RejectInsertionRemoves ==
    PlainCall(Insertion, Reject) =>
        /\ RemovedWithSubtree
        /\ TargetIsOnlyChange => Extractions(response.body) = {<<>>}

\* An insertion holding a nested change node, the only one at top level and
\* listed by extraction, was rejected.
C5_Witness ==
    /\ PlainCall(Insertion, Reject)
    /\ TargetIsOnlyChange
    /\ ChangeNodeSet(Before) # {Target}
    /\ <<>> \notin Extractions(request.file)
    /\ Extractions(response.body) = {<<>>}

\* C6: accepting a deletion without a proposal removes the deletion node
\* with its whole subtree from its parent; none of its content remains.
C6_AcceptDeletionRemoves == PlainCall(Deletion, Accept) => RemovedWithSubtree

\* A deletion with three children between two siblings was accepted.
C6_Witness ==
    /\ PlainCall(Deletion, Accept)
    /\ Len(Before.nodes[Target].kids) = 3
    /\ Len(xmlDoc.nodes[TargetParent].kids) = 2

(***************************************************************************)
(* C7, C8  (route.ts 25-40, 147-163; docx-parser.ts 25-38)                 *)
(***************************************************************************)
\* C7: accept-with-proposal on an insertion or a deletion replaces the
\* target in place: the parent keeps its number of children, the new
\* insertion sits at the target's index, and the target with all its
\* content is out of the tree.
C7_ProposalReplacesInPlace ==
    (ProposalCall /\ request.changeType \in Kinds) =>
        /\ Len(xmlDoc.nodes[TargetParent].kids) = Len(Before.nodes[TargetParent].kids)
        /\ xmlDoc.nodes[TargetParent].kids =
              Splice(Before.nodes[TargetParent].kids, TargetIndex, <<NewNode>>)
        /\ Subtree(Before, Target) \cap InTree(xmlDoc) = {}
        /\ response.body.parts[DocumentPart] = SerializeToString(xmlDoc)

\* A deletion with content, between two siblings, was replaced by a proposal.
C7_Witness ==
    /\ ProposalCall
    /\ request.changeType = Deletion
    /\ TargetIndex = 2
    /\ Len(Before.nodes[TargetParent].kids) = 3
    /\ Len(Before.nodes[Target].kids) = 3

\* The id the new insertion is to carry (C2).
NewId ==
    NumberToString(1 + MaxOf({0} \cup {IdValue(Before, u) : u \in ChangeNodeSet(Before)}))

\* reviewerName is missing or blank.
BlankReviewer == request.reviewerName = Null \/ Trim(request.reviewerName) = Empty

\* Extraction from the returned document lists an Insertion with the new
\* id, the proposed text and the given author.
ListsProposal(author) ==
    \A list \in Extractions(response.body) :
        \E i \in 1..Len(list) :
            /\ list[i].type = Insertion
            /\ list[i].id = NewId
            /\ list[i].text = request.proposedText
            /\ list[i].author = author

\* C8 as stated: after accept-with-proposal with text T and reviewer name R
\* extraction yields an Insertion with the new id, text exactly T and
\* author R, or "Anonymous Reviewer" when R is missing or blank.
C8_ProposalExtractedWithAuthorR ==
    ProposalCall =>
        ListsProposal(IF BlankReviewer THEN AnonymousReviewer ELSE request.reviewerName)

\* C8 amended: the author is R with its leading and trailing white space
\* removed (reviewerName.trim()), or "Anonymous Reviewer" when R is missing
\* or blank; id and text as stated.
C8_ProposalExtractedWithTrimmedAuthor ==
    ProposalCall =>
        ListsProposal(IF BlankReviewer THEN AnonymousReviewer ELSE Trim(request.reviewerName))

\* A proposal whose text starts with a blank, from a reviewer whose name
\* ends with one, was applied and is listed.
C8_Witness ==
    /\ ProposalCall
    /\ request.proposedText = <<" ", "q">>
    /\ request.reviewerName = <<"R", " ">>
    /\ ListsProposal(<<"R">>)

(***************************************************************************)
(* C9  (route.ts 42-103, 147-160)                                          *)
(***************************************************************************)
\* Node u of the tree before is in the tree after the call as it was: same
\* tag, attributes and character data.
SameNode(before, u) ==
    /\ u \in InTree(xmlDoc)
    /\ xmlDoc.nodes[u].tag = before.nodes[u].tag
    /\ xmlDoc.nodes[u].attrs = before.nodes[u].attrs
    /\ xmlDoc.nodes[u].data = before.nodes[u].data

\* C9: a successful call on a node kind touches one target, the first node
\* of that kind with that id: every node outside the target's subtree keeps
\* its tag, attributes, children and parent, except that the target's
\* parent has its child list changed at the target's index only (by
\* nothing, the target's children or the new insertion); what is kept of
\* the target's subtree is kept as it was; nothing is merged.
C9_OnlyTargetSiteChanges ==
    (Succeeded /\ request.changeType \in Kinds) =>
        LET before == Before
            target == FirstCarrier(before, request.changeType, request.changeId)
            parent == parentNode(before, target)
            inside == Subtree(before, target)
        IN  /\ \A u \in InTree(before) \ inside :
                  /\ SameNode(before, u)
                  /\ u # before.doc => parentNode(xmlDoc, u) = parentNode(before, u)
                  /\ u # parent => xmlDoc.nodes[u].kids = before.nodes[u].kids
            /\ \E r \in {<<>>, before.nodes[target].kids} \cup {<<n>> : n \in NewNodes} :
                  xmlDoc.nodes[parent].kids =
                      Splice(before.nodes[parent].kids,
                             IndexOf(before.nodes[parent].kids, target), r)
            /\ \A u \in (inside \ {target}) \cap InTree(xmlDoc) :
                  SameNode(before, u) /\ xmlDoc.nodes[u].kids = before.nodes[u].kids
            /\ target \notin InTree(xmlDoc)

\* Two nodes of the requested kind carried the requested id; the call
\* succeeded and the second one is still in the tree.
C9_Witness ==
    /\ Succeeded /\ request.changeType \in Kinds
    /\ Cardinality(Carriers(Before, request.changeType, request.changeId)) = 2
    /\ \E u \in Carriers(Before, request.changeType, request.changeId) :
          u # Target /\ u \in InTree(xmlDoc)

(***************************************************************************)
(* C10  (route.ts 42-59; docx-parser.ts 125-171)                           *)
(***************************************************************************)
\* The ids the changes of the given type have in the list.
ListedIds(list, type) ==
    {list[i].id : i \in {j \in 1..Len(list) : list[j].type = type}}

\* The ids extraction from the file lists for the type; they do not depend
\* on Math.random.
ExtractedIds(f, type) == UNION {ListedIds(list, type) : list \in Extractions(f)}

\* The call accepted an insertion that extraction lists for its document.
AcceptedListedInsertion ==
    /\ PlainCall(Insertion, Accept)
    /\ request.changeId \in ExtractedIds(request.file, Insertion)

\* Every insertion node declares a w:id and no two declare the same.
UniqueInsertionIds(dom) ==
    \A u \in ChangeNodeSet(dom) :
        dom.nodes[u].tag = "w:ins" =>
            /\ getAttribute(dom, u, "w:id") # Empty
            /\ \A v \in ChangeNodeSet(dom) :
                  (dom.nodes[v].tag = "w:ins" /\ v # u) =>
                      getAttribute(dom, v, "w:id") # getAttribute(dom, u, "w:id")

\* C10 as stated: after accepting an insertion that extraction returned,
\* extraction from the resulting document yields no change with that id.
\* It is stated here for the trees whose insertion ids are pairwise
\* distinct, where it fails already (on any tree it fails as well when a
\* second insertion carries the id).
C10_AcceptedIdNotListed ==
    (AcceptedListedInsertion /\ UniqueInsertionIds(Before)) =>
        request.changeId \notin ExtractedIds(response.body, Insertion)
                                 \cup ExtractedIds(response.body, Deletion)

\* C10 amended: in a tree whose insertion nodes declare pairwise distinct
\* ids, after accepting an insertion that extraction returned, extraction
\* from the resulting document yields no Insertion with that id (a
\* Deletion that carries the same id is still listed).
C10_AcceptedInsertionNotListed ==
    (AcceptedListedInsertion /\ UniqueInsertionIds(Before)) =>
        request.changeId \notin ExtractedIds(response.body, Insertion)

\* An insertion was accepted whose id a deletion shares: the deletion is
\* still listed under that id, the insertion is not.
C10_Witness ==
    /\ AcceptedListedInsertion /\ UniqueInsertionIds(Before)
    /\ request.changeId \in ExtractedIds(response.body, Deletion)
    /\ request.changeId \notin ExtractedIds(response.body, Insertion)

(***************************************************************************)
(* C11  (route.ts 86-103; docx-parser.ts 144-171)                          *)
(***************************************************************************)
\* The change node nearest above u, NoNode when u lies in none.
RECURSIVE NearestChange(_, _)
NearestChange(dom, u) ==
    IF parentNode(dom, u) = NoNode THEN NoNode
    ELSE IF dom.nodes[parentNode(dom, u)].tag \in {"w:ins", "w:del"} THEN parentNode(dom, u)
    ELSE NearestChange(dom, parentNode(dom, u))

\* The deleted-text leaves the target itself holds.
HeldLeaves ==
    {u \in Subtree(Before, Target) :
        Before.nodes[u].tag = "w:delText" /\ NearestChange(Before, u) = Target}

\* The text the ordinary text leaves (w:t) of the tree hold, in document
\* order, with the leaves of restored read as ordinary ones.
TextOfLeaves(dom, restored) ==
    LET IsLeaf(u) == dom.nodes[u].tag = "w:t" \/ u \in restored
        leaves == SelectSeq(Preorder(dom, dom.doc), IsLeaf)
        RECURSIVE Concat(_)
        Concat(i) == IF i > Len(leaves) THEN Empty
                     ELSE textContent(dom, leaves[i]) \o Concat(i + 1)
    IN  Concat(1)

\* A deletion that extraction lists, the only one with its id, was rejected.
RejectedListedDeletion ==
    /\ PlainCall(Deletion, Reject)
    /\ request.changeId \in ExtractedIds(request.file, Deletion)
    /\ Carriers(Before, Deletion, request.changeId) = {Target}
    /\ HeldLeaves # {}

\* C11: after rejecting a deletion, extraction no longer lists the deletion
\* and the text it held is back in the visible text of the document: the
\* ordinary text leaves hold what they held before together with, at its
\* place, the text the deletion's deleted-text leaves held.
C11_RejectedDeletionTextIsBack ==
    RejectedListedDeletion =>
        /\ request.changeId \notin ExtractedIds(response.body, Deletion)
        /\ TextOfLeaves(xmlDoc, {}) = TextOfLeaves(Before, HeldLeaves)

\* The first half of C11 alone: the rejected deletion is no longer listed.
C11_RejectedDeletionNotListed ==
    RejectedListedDeletion => request.changeId \notin ExtractedIds(response.body, Deletion)

(***************************************************************************)
(* C12  (docx-parser.ts 25-62, 125-171)                                    *)
(***************************************************************************)
\* The page holds a file whose document body can be read.
HasDocument == Readable(file) /\ DocumentPart \in DOMAIN file.parts

\* The page holds such a file and no request is in flight (while one is,
\* the file is the one it was sent with).
Loaded == pc = "idle" /\ HasDocument

\* The tree of the page's file.
Tree == ParseFromString(file.parts[DocumentPart])

\* The concatenation of the text leaves of the given tag below node u: the
\* raw content of a leaf with the whitespace-preserve flag, the trimmed
\* content of any other.
LeavesText(dom, u, leaf) ==
    LET IsLeaf(v) == dom.nodes[v].tag = leaf
        leaves == SelectSeq(PreorderAll(dom, dom.nodes[u].kids), IsLeaf)
        Content(v) == IF "xml:space" \in DOMAIN dom.nodes[v].attrs
                         /\ dom.nodes[v].attrs["xml:space"] = Preserve
                      THEN textContent(dom, v) ELSE Trim(textContent(dom, v))
        RECURSIVE Concat(_)
        Concat(i) == IF i > Len(leaves) THEN Empty ELSE Content(leaves[i]) \o Concat(i + 1)
    IN  Concat(1)

\* The nodes of the kind, in document order, whose concatenated text is not
\* empty.
NodesWithText(dom, kind) ==
    LET HasText(u) == /\ dom.nodes[u].tag = ChangeTag(kind)
                      /\ LeavesText(dom, u, LeafTag(kind)) # Empty
    IN  SelectSeq(Preorder(dom, dom.doc), HasText)

\* The changes of the kind in the list, in their order.
OfKind(list, kind) == LET IsKind(c) == c.type = kind IN SelectSeq(list, IsKind)

\* C12: extraction emits a Change for an insertion or deletion node if and
\* only if the concatenation of its text leaves (w:t for insertions,
\* w:delText for deletions; trimmed unless the leaf has the
\* whitespace-preserve flag) is not empty: the changes of each kind are, in
\* order and with that text, the nodes of the kind whose text is not empty.
C12_ListedIffTextNonEmpty ==
    Loaded =>
        \A list \in Extractions(file), kind \in Kinds :
            /\ Len(OfKind(list, kind)) = Len(NodesWithText(Tree, kind))
            /\ \A i \in 1..Len(OfKind(list, kind)) :
                  OfKind(list, kind)[i].text =
                      LeavesText(Tree, NodesWithText(Tree, kind)[i], LeafTag(kind))

\* The page's list, extracted from its file, leaves out the first of two
\* change nodes, whose only leaf is blank, and holds the second.
C12_Witness ==
    /\ HasDocument /\ nOps = 0
    /\ Cardinality(ChangeNodeSet(Tree)) = 2
    /\ \E u \in ChangeNodeSet(Tree) :
          \E v \in Subtree(Tree, u) : Tree.nodes[v].data = <<" ">>
    /\ Len(changes) = 1
    /\ changes[1].text = <<"c">>

(***************************************************************************)
(* C13  (docx-parser.ts 132-134, 161-163; route.ts 42-103, 147-160)        *)
(***************************************************************************)
\* The request names, by id and kind, a change extraction returns for the
\* document it carries.
NamesExtractedChange ==
    /\ Parsed
    /\ request.changeType \in Kinds
    /\ request.changeId \in ExtractedIds(request.file, request.changeType)

\* C13: every Change extraction returns for a document is located in that
\* document by its id and kind: an accept or a reject with that id and kind
\* does not fail with the not-found error, also when the id was synthesized
\* because the node declares none.
C13_ExtractedChangeIsFound == NamesExtractedChange => ~FailedNotFound

\* C13 for the changes whose node declares its id: those are found.
C13_DeclaredChangeIsFound ==
    (NamesExtractedChange /\ request.changeId \in DeclaredIds(request.file)) => ~FailedNotFound

(***************************************************************************)
(* C14  (route.ts 132-160; part_000 552-561)                               *)
(***************************************************************************)
\* C14: a resolved change is never revived: once a change (id, kind) has
\* been accepted, rejected or superseded and no node of that kind carries
\* that id, no later engine operation on the successive output documents
\* produces a tree with a node of that kind carrying that id.
C14_ResolvedNeverRevived ==
    [][\A i \in 1..Len(processedChanges) :
          (/\ processedChanges[i].type \in Kinds
           /\ Carriers(Tree, processedChanges[i].type, processedChanges[i].id) = {})
              => Carriers(ParseFromString(file'.parts[DocumentPart]),
                          processedChanges[i].type, processedChanges[i].id) = {}]_vars

(***************************************************************************)
(* C15  (docx-parser.ts 110-178, 180-222)                                  *)
(***************************************************************************)
\* C15: a core failure during extraction (unreadable archive, missing
\* document body part) is reported to the caller and never swallowed:
\* when it occurs, extractChanges and extractComments do not return a
\* normal result such as the empty list.
C15_ExtractionFailureNotSwallowed ==
    /\ ExtractChangesThrows(file) => <<>> \notin Extractions(file)
    /\ ExtractCommentsThrows(file) => extractComments(file) # <<>>

(***************************************************************************)
(* C16  (part_000 539-549, 604-610)                                        *)
(***************************************************************************)
\* The page sent the request for a change of its list and the call failed
\* with the not-found error.
ListedChangeNotFound ==
    /\ Responded /\ FailedNotFound
    /\ request.changeId \in ListedIds(changes, request.changeType)

\* C16: when a request fails with the not-found error the page takes its
\* change list for stale and extracts it again from the current document,
\* and the current document is left as it was before the request.
C16_NotFoundReextracts ==
    [][ListedChangeNotFound => (file' = file /\ changes' \in Extractions(file'))]_vars

\* The second half of C16 alone: a failed request leaves the page's
\* document as it was.
C16_FailureKeepsFile ==
    [][(Responded /\ response.status # 200) => file' = file]_vars

(***************************************************************************)
(* C17  (route.ts 131-174)                                                 *)
(***************************************************************************)
\* The call took the accept-with-proposal transition: it created one
\* insertion and put it in the place of its target.
TookProposalTransition ==
    /\ Cardinality(NewNodes) = 1
    /\ xmlDoc.nodes[TargetParent].kids =
          Splice(Before.nodes[TargetParent].kids, TargetIndex, <<NewNode>>)

\* The call took the plain transition of its action and kind, which creates
\* no node: an unwrap (accept insertion, reject deletion) or a removal.
TookPlainTransition ==
    /\ NewNodes = {}
    /\ IF (request.action = Accept) <=> (request.changeType = Insertion)
       THEN Unwrapped ELSE RemovedWithSubtree

\* A successful call on a node of either kind.
SucceededOnKind == Succeeded /\ request.changeType \in Kinds

\* C17 as stated: an accept with a proposed text of at least one character
\* takes the accept-with-proposal transition on a target of either kind;
\* with no proposed text or an empty one it takes the plain transition; a
\* reject never creates a node.
C17_NonEmptyTextIsProposal ==
    SucceededOnKind =>
        /\ (request.action = Accept /\ request.proposedText \notin {Null, Empty})
              => TookProposalTransition
        /\ (request.action = Accept /\ request.proposedText \in {Null, Empty})
              => TookPlainTransition
        /\ request.action = Reject => TookPlainTransition

\* C17 amended: an accept whose proposed text is not blank (not empty once
\* its leading and trailing white space is removed) takes the
\* accept-with-proposal transition on a target of either kind; with no
\* proposed text, an empty one or white space only it takes the plain
\* transition; a reject never creates a node.
C17_NonBlankTextIsProposal ==
    SucceededOnKind =>
        /\ (request.action = Accept /\ request.proposedText # Null
                /\ Trim(request.proposedText) # Empty)
              => TookProposalTransition
        /\ (request.action = Accept
                /\ (request.proposedText = Null \/ Trim(request.proposedText) = Empty))
              => TookPlainTransition
        /\ request.action = Reject => TookPlainTransition

\* An accept of a deletion with a proposed text of one blank removed the
\* deletion and created nothing; the same on the same document with the
\* text " q" is the proposal of C7_Witness.
C17_Witness ==
    /\ SucceededOnKind
    /\ request.action = Accept /\ request.changeType = Deletion
    /\ request.proposedText = <<" ">>
    /\ NewNodes = {}
    /\ Target \notin InTree(xmlDoc)

(***************************************************************************)
(* C18  (docx-parser.ts 126-171)                                           *)
(***************************************************************************)
\* The nodes of the kind in document order.
NodesOfKind(dom, kind) ==
    LET IsKind(u) == dom.nodes[u].tag = ChangeTag(kind)
    IN  SelectSeq(Preorder(dom, dom.doc), IsKind)

\* The attribute the node declares, absent when it declares none or an
\* empty one.
Declares(dom, u, name) ==
    name \in DOMAIN dom.nodes[u].attrs /\ dom.nodes[u].attrs[name] # Empty

\* C18: missing optional attributes never abort extraction: every node
\* with text is extracted (C12), and the change of a node takes the id,
\* author and date the node declares; an insertion without id gets ins-<i>,
\* i its index (from 0) among the insertion nodes of the document, a
\* missing author becomes "Unknown" and a missing date null.
C18_MissingAttributesDefaulted ==
    Loaded =>
        \A list \in Extractions(file), kind \in Kinds :
            /\ Len(OfKind(list, kind)) = Len(NodesWithText(Tree, kind))
            /\ \A j \in 1..Len(OfKind(list, kind)) :
                  LET c == OfKind(list, kind)[j]
                      u == NodesWithText(Tree, kind)[j]
                  IN  /\ Declares(Tree, u, "w:id") => c.id = Tree.nodes[u].attrs["w:id"]
                      /\ (~Declares(Tree, u, "w:id") /\ kind = Insertion) =>
                            c.id = <<"i", "n", "s", "-">>
                                       \o NumberToString(IndexOf(NodesOfKind(Tree, kind), u) - 1)
                      /\ c.author = IF Declares(Tree, u, "w:author")
                                    THEN Tree.nodes[u].attrs["w:author"] ELSE Unknown
                      /\ c.date = IF "w:date" \in DOMAIN Tree.nodes[u].attrs
                                  THEN Tree.nodes[u].attrs["w:date"] ELSE Null

\* The page lists the second insertion of its document, which declares no
\* attribute, as ins-1 by Unknown with a null date; the first insertion,
\* of blank text, is not listed.
C18_Witness ==
    /\ HasDocument /\ nOps = 0
    /\ Len(NodesOfKind(Tree, Insertion)) = 2
    /\ Tree.nodes[NodesOfKind(Tree, Insertion)[2]].attrs = NoAttrs
    /\ Len(changes) = 1
    /\ changes[1].id = <<"i", "n", "s", "-", "1">>
    /\ changes[1].author = Unknown
    /\ changes[1].date = Null

(***************************************************************************)
(* C19  (docx-parser.ts 65-108, 110-178)                                   *)
(***************************************************************************)
\* C19: extraction is a deterministic function of the tree: two
\* extractions of the same document return lists that are identical in
\* every field, sectionId and paragraphId included, also for a change node
\* without a paragraph ancestor.
C19_ExtractionDeterministic == Cardinality(Extractions(file)) = 1

\* Two extractions of the same document differ in paragraphId at most.
C19_OnlyParagraphIdVaries ==
    \A l1 \in Extractions(file), l2 \in Extractions(file) :
        /\ Len(l1) = Len(l2)
        /\ \A i \in 1..Len(l1) : [l1[i] EXCEPT !.paragraphId = Empty]
                                    = [l2[i] EXCEPT !.paragraphId = Empty]

(***************************************************************************)
(* C20  (route.ts 176-183; docx-parser.ts 180-222; part_000 545-549)       *)
(***************************************************************************)
\* C20: a successful mutation replaces the document-body part of the
\* package and nothing else: along any sequence of accept, reject and
\* proposal operations the page's file keeps its parts, every part other
\* than the document body keeps its content, and extractComments returns
\* the same list.
C20_OtherPartsUnchanged ==
    [][Readable(file) =>
          /\ Readable(file')
          /\ DOMAIN file'.parts = DOMAIN file.parts
          /\ \A part \in DOMAIN file.parts \ {DocumentPart} :
                file'.parts[part] = file.parts[part]
          /\ extractComments(file') = extractComments(file)]_vars

\* After a proposal on change 3 and a plain call on change 9, the page's
\* file holds the new insertion 10 and no other change, and still has its
\* comments part: extraction returns its two comments, the second under a
\* synthesized id.
C20_Witness ==
    /\ pc = "idle" /\ nOps = 2
    /\ Len(processedChanges) = 2
    /\ HasDocument
    /\ Carriers(Tree, Insertion, <<"1", "0">>) = ChangeNodeSet(Tree)
    /\ ChangeNodeSet(Tree) # {}
    /\ CommentsPart \in DOMAIN file.parts
    /\ Len(extractComments(file)) = 2
    /\ extractComments(file)[2].id = <<"c", "o", "m", "m", "e", "n", "t", "-", "1">>

(***************************************************************************)
(* C21  (route.ts 115-125)                                                 *)
(***************************************************************************)
\* A required field of the form is absent or empty.
LacksField(req) ==
    \/ ~IsFile(req.file)
    \/ \E field \in {"changeId", "changeType", "action"} : req[field] \in {Null, Empty}

\* The file of the form is an archive without word/document.xml.
LacksDocumentPart(req) ==
    IsFile(req.file) /\ Readable(req.file) /\ DocumentPart \notin DOMAIN req.file.parts

\* A JSON error response: an error status, a message, no document bytes.
StructuredError ==
    /\ response.status >= 400
    /\ "error" \in DOMAIN response
    /\ "body" \notin DOMAIN response

\* C21: a request whose package has no word/document.xml, or that lacks a
\* required field (file, change id, kind, action), ends in a structured
\* error response without document bytes, and no tree was parsed or
\* mutated for it.
C21_InvalidRequestRejected ==
    Responded /\ (LacksField(request) \/ LacksDocumentPart(request))
        => StructuredError /\ xmlDoc = NoDocument

\* A form without an action that names a change of the document, and is
\* answered 400.
C21_Witness ==
    /\ Responded
    /\ request.action = Null
    /\ request.changeId \in DeclaredIds(request.file)
    /\ Carriers(Before, request.changeType, request.changeId) # {}
    /\ response = JsonError(400, "Missing required fields", NoError)

\* A complete form whose archive has no document body, answered 400.
C21_WitnessNoDocumentPart ==
    /\ Responded
    /\ ~LacksField(request)
    /\ LacksDocumentPart(request)
    /\ response = JsonError(400, "Invalid DOCX file", NoError)

(***************************************************************************)
(* C22  (docx-parser.ts 125-173)                                           *)
(***************************************************************************)
\* Node u of the tree is one the entry c of a change list may come from: it
\* is of c's kind, has c's text and, when it declares an id, c's id.
Yields(dom, u, c) ==
    /\ dom.nodes[u].tag = ChangeTag(c.type)
    /\ c.text = (IF c.type = Insertion THEN getTextFromNode(dom, u) ELSE DeletedText(dom, u))
    /\ Declares(dom, u, "w:id") => c.id = dom.nodes[u].attrs["w:id"]

\* No deletion of the list precedes an insertion, and two entries of one
\* kind come from two nodes in the order of the document.
InsertionsThenDeletions(dom, list) ==
    \A i, j \in 1..Len(list) :
        i < j =>
            /\ ~(list[i].type = Deletion /\ list[j].type = Insertion)
            /\ list[i].type = list[j].type =>
                   \E u, v \in InTree(dom) :
                       /\ DocPos(dom, u) < DocPos(dom, v)
                       /\ Yields(dom, u, list[i])
                       /\ Yields(dom, v, list[j])

\* C22: the list extractChanges returns for the page's file holds the
\* insertions in document order, then the deletions in document order,
\* wherever the nodes of the two kinds stand in the document.
C22_InsertionsThenDeletionsInOrder ==
    Loaded => \A list \in Extractions(file) : InsertionsThenDeletions(Tree, list)

\* A document whose deletion 3 stands before its insertion 9, listed as
\* insertion 9, deletion 3; and one with two listed insertions.
C22_Witness ==
    /\ Loaded
    /\ file = Package(Siblings([kind |-> Deletion, id |-> <<"3">>],
                               [kind |-> Insertion, id |-> <<"9">>]))
    /\ Len(changes) = 2
    /\ changes[1].type = Insertion /\ changes[1].id = <<"9">>
    /\ changes[2].type = Deletion /\ changes[2].id = <<"3">>
    /\ changes \in Extractions(file)

\* Two insertions listed in the order of the document.
C22_WitnessSameKind ==
    /\ Loaded
    /\ file = Package(Siblings([kind |-> Insertion, id |-> <<"3">>],
                               [kind |-> Insertion, id |-> <<"2">>]))
    /\ Len(changes) = 2
    /\ changes[1].id = <<"3">> /\ changes[2].id = <<"2">>

(***************************************************************************)
(* C23  (part_000 42-127)                                                  *)
(***************************************************************************)
\* useMemo(() => groupChangesBySection(changes, contractSections))
groupedChanges == groupChangesBySection(changes, contractSections)

\* The ids of the headings.
HeadingIds == {contractSections[i].id : i \in 1..Len(contractSections)}

\* The key of the group that holds the change.
BucketOf(change) ==
    CHOOSE key \in DOMAIN groupedChanges :
        \E k \in 1..Len(groupedChanges[key].changes) : groupedChanges[key].changes[k] = change

\* More than 30% of the significant words of the heading's title (those of
\* more than three letters) occur in the text of the change.
Overlaps(change, section) ==
    LET words == sectionWords(section)
        found == {k \in 1..Len(words) : Includes(toLowerCase(change.text), words[k])}
    IN  10 * Cardinality(found) > 3 * Len(words)

\* The headings the change matches by token overlap.
OverlappingHeadings(change) ==
    {i \in 1..Len(contractSections) : Overlaps(change, contractSections[i])}

\* C23: a change is in the group of a heading only when that heading is
\* the one heading its text overlaps by more than 30% of the heading's
\* significant words; a change that overlaps no heading, or several, is
\* in a group that is no heading's (the "Unknown Section" bucket).
C23_NoMatchGoesToUnknownSection ==
    \A k \in 1..Len(changes) :
        \A i \in 1..Len(contractSections) :
            BucketOf(changes[k]) = contractSections[i].id
                => OverlappingHeadings(changes[k]) = {i}

\* A change of more than ten characters that overlaps a heading is in the
\* group of the first heading it overlaps.
C23_OverlapAttachesToFirstMatch ==
    \A k \in 1..Len(changes) :
        Len(changes[k].text) > 10 /\ OverlappingHeadings(changes[k]) # {}
            => \E i \in OverlappingHeadings(changes[k]) :
                  /\ BucketOf(changes[k]) = contractSections[i].id
                  /\ \A j \in OverlappingHeadings(changes[k]) : i <= j

\* With headings every change is in the group of a heading; without, every
\* change is in the group of its own sectionId, named "Document Section".
C23_NoUnknownSectionBucket ==
    \A k \in 1..Len(changes) :
        IF contractSections # <<>> THEN BucketOf(changes[k]) \in HeadingIds
        ELSE /\ BucketOf(changes[k]) = changes[k].sectionId
             /\ groupedChanges[BucketOf(changes[k])].sectionName = DocumentSection

\* A change that overlaps no heading is listed while there are headings.
C23_NoMatchCase ==
    /\ contractSections = <<PaymentTerms>>
    /\ Len(changes) = 1
    /\ OverlappingHeadings(changes[1]) = {}
    /\ Len(changes[1].text) > 10

\* A change that has one of the four significant words of the heading.
C23_BelowThresholdCase ==
    /\ contractSections = <<LiabilityCap>>
    /\ Len(changes) = 1
    /\ matchCount(changes[1], LiabilityCap) = 1
    /\ Len(sectionWords(LiabilityCap)) = 4
    /\ BucketOf(changes[1]) = LiabilityCap.id

(***************************************************************************)
(* C24  (route.ts 132-160, 42-103)                                         *)
(***************************************************************************)
\* No two insertion nodes of the tree carry the same w:id, and no two
\* deletion nodes do.
UniqueWithinKind(dom) ==
    \A u, v \in ChangeNodeSet(dom) :
        (u # v /\ dom.nodes[u].tag = dom.nodes[v].tag)
            => getAttribute(dom, u, "w:id") # getAttribute(dom, v, "w:id")

\* C24: every successful accept, reject and accept-with-proposal keeps the
\* ids unique within each kind: when they are in the tree the call parsed,
\* they are in the tree it returns, which the page sends with its next
\* request.
C24_UniquenessPreserved ==
    Succeeded => LET before == Before
                 IN  UniqueWithinKind(before) => UniqueWithinKind(xmlDoc)

\* A proposal on a tree with unique ids that holds an insertion besides
\* the target: the new insertion stands next to it in the result.
C24_Witness ==
    /\ ProposalCall
    /\ UniqueWithinKind(Before)
    /\ Cardinality(ChangeNodeSet(Before)) = 2
    /\ \E u \in ChangeNodeSet(xmlDoc) \ {NewNode} : xmlDoc.nodes[u].tag = "w:ins"
    /\ nOps = 2

(***************************************************************************)
(* C25  (route.ts 42-103, 156-160)                                         *)
(***************************************************************************)
\* The number of insertion and deletion nodes of the tree.
ChangeCount(dom) == Cardinality(ChangeNodeSet(dom))

\* The call left no more change nodes than it parsed, fewer when it is a
\* successful plain accept or reject, and failed with the not-found error
\* when it parsed none.
CountDecreases ==
    LET n == ChangeCount(Before)
    IN  /\ ChangeCount(xmlDoc) <= n
        /\ (Succeeded /\ ~IsProposal(request)) => ChangeCount(xmlDoc) < n
        /\ n = 0 => FailedNotFound

\* C25: no operation increases the number of insertion and deletion
\* nodes, every successful plain accept or reject decreases it, and on a
\* tree without change nodes every operation fails with the not-found
\* error.
C25_ChangeCountDecreases == Parsed => CountDecreases

\* The same for the requests whose kind is insertion or deletion.
C25_ChangeCountDecreasesForKnownKinds ==
    (Parsed /\ request.changeType \in Kinds) => CountDecreases

\* The second request of a session finds a tree without change nodes.
C25_NoChangeLeft ==
    /\ Parsed /\ request.changeType \in Kinds
    /\ nOps = 2
    /\ ChangeCount(Before) = 0
    /\ FailedNotFound

(***************************************************************************)
(* C26  (part_000 521-611)                                                 *)
(***************************************************************************)
\* The fetch i of the page settles in this step.
Settles(i) == i \in 1..Len(inFlight) /\ inFlight' = RemoveAt(inFlight, i)

\* The fetch rejected or its response is not ok.
Fails(i) == inFlight[i].response.status # 200

\* C26: when the fetch of a redline action fails (it rejects, or the
\* response is not ok) the page's file, change list and history stay as
\* they are and an error is set; isProcessing is false after every fetch
\* that settles, failed or not.
C26_FailureKeepsPageState ==
    [][\A i \in 1..Len(inFlight) :
          Settles(i) =>
              /\ isProcessing' = FALSE
              /\ Fails(i) =>
                    /\ file' = file
                    /\ changes' = changes
                    /\ processedChanges' = processedChanges
                    /\ error' # NoError]_vars

\* The fetch of the second action of a session rejected: the page shows
\* the error and keeps the history of the first.
C26_Witness ==
    /\ error = NetworkError
    /\ ~isProcessing
    /\ inFlight = <<>>
    /\ Len(processedChanges) = 1
    /\ changes # <<>>
    /\ file \notin PageFiles

\* The response to an action was not ok: the page shows its details.
C26_WitnessNotOk ==
    /\ error.message = "Insertion with ID not found."
    /\ ~isProcessing
    /\ inFlight = <<>>
    /\ changes # <<>>

(***************************************************************************)
(* C27  (part_000 551-563)                                                 *)
(***************************************************************************)
\* The ok response to fetch i of the page is applied in this step.
Applies(i) == Settles(i) /\ ~Fails(i)

\* The list without the changes of the given id and kind.
WithoutChange(list, id, type) ==
    LET Keep(c) == ~(c.id = id /\ c.type = type) IN SelectSeq(list, Keep)

\* The history gains one entry, for the change of the request.
OneEntryAppended(sent) ==
    /\ Len(processedChanges') = Len(processedChanges) + 1
    /\ SubSeq(processedChanges', 1, Len(processedChanges)) = processedChanges
    /\ processedChanges'[Len(processedChanges')].id = sent.changeId
    /\ processedChanges'[Len(processedChanges')].type = sent.changeType

\* Another change of the list has the id of the request and the other kind.
IdShared(sent) ==
    \E k \in 1..Len(changes) : changes[k].id = sent.changeId /\ changes[k].type # sent.changeType

\* C27: a successful action on change c leaves the page's list as it was
\* without c, a change of the other kind with c's id included, and appends
\* one entry for c to the history.
C27_ExactlyTheChangeLeaves ==
    [][\A i \in 1..Len(inFlight) :
          Applies(i) =>
              /\ changes' = WithoutChange(changes, inFlight[i].request.changeId,
                                          inFlight[i].request.changeType)
              /\ OneEntryAppended(inFlight[i].request)]_vars

\* The same for an action on a change whose id no change of the other
\* kind has.
C27_ExactWhenIdNotShared ==
    [][\A i \in 1..Len(inFlight) :
          (Applies(i) /\ ~IdShared(inFlight[i].request)) =>
              /\ changes' = WithoutChange(changes, inFlight[i].request.changeId,
                                          inFlight[i].request.changeType)
              /\ OneEntryAppended(inFlight[i].request)]_vars

\* An insertion and a deletion with the same id are listed, and the ok
\* response to an action on one of them awaits the page.
C27_SharedIdCase ==
    /\ Len(inFlight) = 1
    /\ inFlight[1].response.status = 200
    /\ IdShared(inFlight[1].request)
    /\ Len(changes) = 2

(***************************************************************************)
(* C28  (part_000 545-570, route.ts 131-174, docx-parser.ts 125-173)       *)
(***************************************************************************)
\* The (id, kind) pairs of a change list.
PendingPairs(list) == {<<list[k].id, list[k].type>> : k \in 1..Len(list)}

\* No upload, reload or request is in flight.
Quiescent == pc = "idle" /\ inFlight = <<>> /\ loading = <<>>

\* Every request of the session was an action of the page that succeeded.
OnlySuccessfulActions == Len(processedChanges) = nOps

\* C28: in a quiescent state reached by successful accept, reject and
\* accept-with-proposal actions the (id, kind) pairs of the page's list
\* are those extractChanges returns for the page's file.
C28_PendingListMatchesFile ==
    (Quiescent /\ OnlySuccessfulActions /\ HasDocument)
        => \A list \in Extractions(file) : PendingPairs(changes) = PendingPairs(list)

\* After one successful accept-with-proposal the file holds an insertion
\* that the page does not list.
C28_ProposalCase ==
    /\ Quiescent /\ HasDocument
    /\ Len(processedChanges) = 1 /\ nOps = 1
    /\ \E list \in Extractions(file) :
          \E pair \in PendingPairs(list) \ PendingPairs(changes) : pair[2] = Insertion

(***************************************************************************)
(* C29  (part_000 367-414, 449-486, 521-563)                               *)
(***************************************************************************)
\* An upload or reload was started after fetch i was sent.
Late(i) == inFlight[i].loads < nLoads

\* C29: the response to a redline request that was in flight when an
\* upload or reload started does not change the page's file and does not
\* edit its change list: both stay those of the newly loaded document.
C29_LateResponseDiscarded ==
    [][\A i \in 1..Len(inFlight) :
          (Settles(i) /\ Late(i)) => file' = file /\ changes' = changes]_vars

\* An action was in flight when a load started, and both have completed:
\* the history was emptied by the load and holds the late action, and the
\* page's file is the document the late response returned.
C29_LateResponseCase ==
    /\ Quiescent
    /\ nLoads = 1 /\ nOps = 2
    /\ Len(processedChanges) = 1
    /\ file \notin PageFiles \cup UploadFiles

(***************************************************************************)
(* C30  (part_000 197-226, 521-549)                                        *)
(***************************************************************************)
\* C30: at most one redline request of the page is in flight, and while
\* one is, isProcessing is true (which disables the buttons of the change
\* cards).
C30_OneRequestInFlight ==
    /\ Len(inFlight) <= 1
    /\ inFlight # <<>> => isProcessing

\* While isProcessing is true no step starts a redline request.
C30_NoStartWhileProcessing ==
    [][isProcessing => Len(inFlight') <= Len(inFlight)]_vars

\* A response is applied to the file its request was sent with, unless an
\* upload started in between (C29).
C30_AppliedToBaseFile ==
    [][\A i \in 1..Len(inFlight) :
          (Applies(i) /\ ~Late(i)) => inFlight[i].request.file = file]_vars

\* The first request of a session is in flight and will succeed; the page
\* lists two changes, whose buttons are disabled.
C30_Witness ==
    /\ Len(inFlight) = 1
    /\ isProcessing
    /\ nOps = 1
    /\ Len(changes) = 2
    /\ inFlight[1].response.status = 200
    /\ Disabled

=============================================================================
